---- MODULE Spec2Model ----
(***************************************************************************)
(* Rep-counting engine of the AI fitness tracker.                          *)
(*                                                                         *)
(*   utils/workoutUtils.js      geometry helpers and the eight exercise    *)
(*                              state machines                             *)
(*   components/WorkoutTracker  frame loop and session controller          *)
(*                                                                         *)
(* Angles are kept in hundredths of a degree (Deg(150) is 150 degrees) so  *)
(* that the angles the geometry produces on an integer grid are exact to   *)
(* 0.01 degree.  A missing number (JS null / undefined) is Null, a missing *)
(* point is NoPoint.  State that is only displayed and never read back    *)
(* (the phase label, the form label, lastRepTime) is left out.            *)
(***************************************************************************)
EXTENDS Integers, Sequences, FiniteSets, TLC

VARIABLES
  \* --- WorkoutTracker: refs
  sm,                 \* stateMachinesRef.current : exercise kind -> state machine object
  stateMachineRef,    \* stateMachineRef.current, as the kind of the machine it points to
  isCountingRef,      \* isCountingRef.current
  currentExerciseRef, \* currentExerciseRef.current
  animationRef,       \* animationRef.current : id of the last requested animation frame, or Null
  \* --- WorkoutTracker: React state
  isWorkoutActive,
  isCounting,
  currentExercise,
  repCount,           \* the displayed rep counter
  workoutLog,         \* sequence of [exercise, reps]
  isCalculating,
  caloriesResult,
  showResult,
  \* --- React bookkeeping
  activeSeen,         \* value of isWorkoutActive the camera effect last ran with
  voiceRepCount,      \* repCount captured by the closure of the installed voice listener
  \* --- browser / network
  tracksLive,         \* a camera MediaStream was obtained and its tracks were not stopped
  camStarting,        \* startCamera() calls waiting for getUserMedia and the video metadata
  rafPending,         \* ids of the requested animation frames not yet run nor cancelled
  awaiting,           \* detect() invocations suspended at await detector.estimatePoses
  fetches,            \* calorie requests in flight
  resetTimers,        \* pending setTimeout(..., 5000) callbacks of handleEndWorkout
  \* --- observation
  sent,               \* the workouts arrays of the calorie requests in flight, oldest first
  nUpdates,           \* number of update() calls made by the frame loop
  spoken,             \* the last message handed to speakFeedback, "" if none yet
  ut,                 \* harness: the kind of the machine being driven
  fed,                \* harness: the driving angles passed to update(), in call order
  needed,             \* harness: the last pose showed every keypoint the exercise needs
  form,               \* harness: torsoLean, kneeToe and legLength of the last update() call
  seen,               \* harness: the last pose estimation returned a pose
  geo,                \* harness: the points given to the geometry helpers and their results
  since,              \* harness: the driving angles fed since the last counted rep, as a set
  jitter,             \* harness: the threshold the inputs jitter around, and repCount at its start
  ttsEnabled,         \* voiceAssistantService.ttsEnabled
  script              \* scenario: the steps the user has still to perform

refs    == <<sm, stateMachineRef, isCountingRef, currentExerciseRef, animationRef>>
state   == <<isWorkoutActive, isCounting, currentExercise, repCount,
             workoutLog, isCalculating, caloriesResult, showResult>>
react   == <<activeSeen, voiceRepCount>>
loop    == <<tracksLive, camStarting, rafPending, awaiting>>
net     == <<fetches, resetTimers, sent>>
harness == <<ut, fed, needed, form, seen, geo, since, jitter>>
program == <<refs, state, react, loop, net, nUpdates, spoken>>
vars    == <<program, harness, script, ttsEnabled>>

\* ---------------------------------------------------------------- bounds
MaxFed == 5

MaxUpdates == 3

MaxLoops == 1

MaxFetches == 1

MaxTimers == 1

MaxLogged == 2

MaxFrames == 6

MaxReps == 2

\* ---------------------------------------------------------------- values
Null == -1

NoPoint == <<>>

Deg(n) == n * 100

Falsy(v) == v = Null \/ v = 0

Kinds ==
  {"squat", "bench", "deadlift", "pushup", "pullup", "shoulderpress", "lateralraise", "lunge"}

Msg(type, text) == [type |-> type, text |-> text]

NoAngles ==
  [knee |-> Null, hip |-> Null, torsoLean |-> Null, elbow |-> Null, backAngle |-> Null,
   leftElbow |-> Null, rightElbow |-> Null, shoulder |-> Null]

NoDistances ==
  [kneeToe |-> Null, legLength |-> Null,
   leftWrist |-> NoPoint, rightWrist |-> NoPoint,
   leftShoulder |-> NoPoint, rightShoulder |-> NoPoint]

\* ---------------------------------------------------------------- squat
SquatThresholds ==
  [descendKneeAngle |-> Deg(150), descendHipAngle |-> Deg(150),
   bottomKneeAngle |-> Deg(110), bottomHipAngle |-> Deg(120),
   ascendKneeAngle |-> Deg(150), depthKneeAngle |-> Deg(130),
   kneeToeRatio100 |-> 20, torsoLeanAngle |-> Deg(50)]

NewSquat ==
  [state |-> "standing", repCount |-> 0, feedbackMessages |-> <<>>, minDepthReached |-> FALSE]

SquatUpdate_NoHyst(m, angles, distances) ==
  LET T  == SquatThresholds
      m0 == [m EXCEPT !.feedbackMessages = <<>>]
      knee == angles.knee
  IN IF Falsy(angles.knee)
       THEN [m0 EXCEPT !.feedbackMessages = Append(@, Msg("warning", "Cannot detect legs"))]
     ELSE IF m0.state = "standing"
       THEN IF knee < T.descendKneeAngle
              THEN [m0 EXCEPT !.state = "descending", !.minDepthReached = FALSE]
              ELSE m0
     ELSE IF m0.state = "descending"
       THEN LET m1 == IF knee < T.depthKneeAngle
                        THEN [m0 EXCEPT !.minDepthReached = TRUE] ELSE m0
            IN IF knee < T.bottomKneeAngle THEN [m1 EXCEPT !.state = "bottom"] ELSE m1
     ELSE IF m0.state = "bottom"
       THEN IF knee > T.bottomKneeAngle
              THEN [m0 EXCEPT !.state = "ascending"] ELSE m0
     ELSE IF m0.state = "ascending"
       THEN IF knee > T.ascendKneeAngle
              THEN IF m0.minDepthReached
                     THEN [m0 EXCEPT !.repCount = @ + 1,
                                     !.feedbackMessages = Append(@, Msg("success", "Good rep!")),
                                     !.state = "standing", !.minDepthReached = FALSE]
                     ELSE [m0 EXCEPT !.feedbackMessages = Append(@, Msg("error", "Too shallow")),
                                     !.state = "standing", !.minDepthReached = FALSE]
              ELSE m0
     ELSE m0

\* update() whose depth test is 40 degrees below depthKneeAngle
SquatUpdate_DeepDepth(m, angles, distances) ==
  LET T  == SquatThresholds
      m0 == [m EXCEPT !.feedbackMessages = <<>>]
      knee == angles.knee
  IN IF Falsy(angles.knee)
       THEN [m0 EXCEPT !.feedbackMessages = Append(@, Msg("warning", "Cannot detect legs"))]
     ELSE IF m0.state = "standing"
       THEN IF knee < T.descendKneeAngle
              THEN [m0 EXCEPT !.state = "descending", !.minDepthReached = FALSE]
              ELSE m0
     ELSE IF m0.state = "descending"
       THEN LET m1 == IF knee < T.depthKneeAngle - Deg(40)
                        THEN [m0 EXCEPT !.minDepthReached = TRUE] ELSE m0
            IN IF knee < T.bottomKneeAngle THEN [m1 EXCEPT !.state = "bottom"] ELSE m1
     ELSE IF m0.state = "bottom"
       THEN IF knee > T.bottomKneeAngle + Deg(15)
              THEN [m0 EXCEPT !.state = "ascending"] ELSE m0
     ELSE IF m0.state = "ascending"
       THEN IF knee > T.ascendKneeAngle
              THEN IF m0.minDepthReached
                     THEN [m0 EXCEPT !.repCount = @ + 1,
                                     !.feedbackMessages = Append(@, Msg("success", "Good rep!")),
                                     !.state = "standing", !.minDepthReached = FALSE]
                     ELSE [m0 EXCEPT !.feedbackMessages = Append(@, Msg("error", "Too shallow")),
                                     !.state = "standing", !.minDepthReached = FALSE]
              ELSE m0
     ELSE m0

SquatUpdate(m, angles, distances) ==
  LET T  == SquatThresholds
      m0 == [m EXCEPT !.feedbackMessages = <<>>]
      knee == angles.knee
  IN IF Falsy(angles.knee)
       THEN [m0 EXCEPT !.feedbackMessages = Append(@, Msg("warning", "Cannot detect legs"))]
     ELSE IF m0.state = "standing"
       THEN IF knee < T.descendKneeAngle
              THEN [m0 EXCEPT !.state = "descending", !.minDepthReached = FALSE]
              ELSE m0
     ELSE IF m0.state = "descending"
       THEN LET m1 == IF knee < T.depthKneeAngle
                        THEN [m0 EXCEPT !.minDepthReached = TRUE] ELSE m0
            IN IF knee < T.bottomKneeAngle THEN [m1 EXCEPT !.state = "bottom"] ELSE m1
     ELSE IF m0.state = "bottom"
       THEN IF knee > T.bottomKneeAngle + Deg(15)
              THEN [m0 EXCEPT !.state = "ascending"] ELSE m0
     ELSE IF m0.state = "ascending"
       THEN IF knee > T.ascendKneeAngle
              THEN IF m0.minDepthReached
                     THEN [m0 EXCEPT !.repCount = @ + 1,
                                     !.feedbackMessages = Append(@, Msg("success", "Good rep!")),
                                     !.state = "standing", !.minDepthReached = FALSE]
                     ELSE [m0 EXCEPT !.feedbackMessages = Append(@, Msg("error", "Too shallow")),
                                     !.state = "standing", !.minDepthReached = FALSE]
              ELSE m0
     ELSE m0

\* checkSquatForm(torsoLean, kneeToe, legLength); update() never calls it
checkSquatForm(m, torsoLean, kneeToe, legLength) ==
  LET T  == SquatThresholds
      m1 == IF ~Falsy(legLength) /\ kneeToe # Null
                /\ 100 * kneeToe > T.kneeToeRatio100 * legLength
              THEN [m EXCEPT !.feedbackMessages =
                                Append(@, Msg("warning", "Keep knees behind toes"))]
              ELSE m
  IN IF ~Falsy(torsoLean) /\ torsoLean > T.torsoLeanAngle
       THEN [m1 EXCEPT !.feedbackMessages =
                          Append(@, Msg("warning", "Keep torso more upright"))]
       ELSE m1

\* reset() that leaves the depth flag as it is
SquatReset_KeepDepth(m) ==
  [m EXCEPT !.repCount = 0, !.state = "standing"]

SquatReset(m) ==
  [m EXCEPT !.repCount = 0, !.state = "standing", !.minDepthReached = FALSE]

\* --------------------------------------------------------- bench press
BenchPressThresholds ==
  [extendedAngle |-> Deg(160), descendingAngle |-> Deg(120), bottomAngle |-> Deg(90), ascendingAngle |-> Deg(120)]

NewBenchPress == [state |-> "extended", repCount |-> 0, feedbackMessages |-> <<>>]

BenchPressUpdate_NoGuard(m, angles, distances) ==
  LET T  == BenchPressThresholds
      m0 == [m EXCEPT !.feedbackMessages = <<>>]
      elbow == angles.elbow
  IN IF FALSE
       THEN [m0 EXCEPT !.feedbackMessages = Append(@, Msg("warning", "Cannot detect pose"))]
     ELSE IF m0.state = "extended"
       THEN IF elbow < T.descendingAngle THEN [m0 EXCEPT !.state = "descending"] ELSE m0
     ELSE IF m0.state = "descending"
       THEN IF elbow < T.bottomAngle THEN [m0 EXCEPT !.state = "bottom"] ELSE m0
     ELSE IF m0.state = "bottom"
       THEN IF elbow > T.bottomAngle + Deg(10) THEN [m0 EXCEPT !.state = "ascending"] ELSE m0
     ELSE IF m0.state = "ascending"
       THEN IF elbow > T.extendedAngle
              THEN [m0 EXCEPT !.repCount = @ + 1,
                              !.feedbackMessages = Append(@, Msg("success", "Good rep!")),
                              !.state = "extended"]
              ELSE m0
     ELSE m0

\* update() that leaves bottom as soon as the elbow is above bottomAngle
BenchPressUpdate_NoHyst(m, angles, distances) ==
  LET T  == BenchPressThresholds
      m0 == [m EXCEPT !.feedbackMessages = <<>>]
      elbow == angles.elbow
  IN IF Falsy(elbow)
       THEN [m0 EXCEPT !.feedbackMessages = Append(@, Msg("warning", "Cannot detect pose"))]
     ELSE IF m0.state = "extended"
       THEN IF elbow < T.descendingAngle THEN [m0 EXCEPT !.state = "descending"] ELSE m0
     ELSE IF m0.state = "descending"
       THEN IF elbow < T.bottomAngle THEN [m0 EXCEPT !.state = "bottom"] ELSE m0
     ELSE IF m0.state = "bottom"
       THEN IF elbow > T.bottomAngle THEN [m0 EXCEPT !.state = "ascending"] ELSE m0
     ELSE IF m0.state = "ascending"
       THEN IF elbow > T.extendedAngle
              THEN [m0 EXCEPT !.repCount = @ + 1,
                              !.feedbackMessages = Append(@, Msg("success", "Good rep!")),
                              !.state = "extended"]
              ELSE m0
     ELSE m0

BenchPressUpdate(m, angles, distances) ==
  LET T  == BenchPressThresholds
      m0 == [m EXCEPT !.feedbackMessages = <<>>]
      elbow == angles.elbow
  IN IF Falsy(elbow)
       THEN [m0 EXCEPT !.feedbackMessages = Append(@, Msg("warning", "Cannot detect pose"))]
     ELSE IF m0.state = "extended"
       THEN IF elbow < T.descendingAngle THEN [m0 EXCEPT !.state = "descending"] ELSE m0
     ELSE IF m0.state = "descending"
       THEN IF elbow < T.bottomAngle THEN [m0 EXCEPT !.state = "bottom"] ELSE m0
     ELSE IF m0.state = "bottom"
       THEN IF elbow > T.bottomAngle + Deg(10) THEN [m0 EXCEPT !.state = "ascending"] ELSE m0
     ELSE IF m0.state = "ascending"
       THEN IF elbow > T.extendedAngle
              THEN [m0 EXCEPT !.repCount = @ + 1,
                              !.feedbackMessages = Append(@, Msg("success", "Good rep!")),
                              !.state = "extended"]
              ELSE m0
     ELSE m0

BenchPressReset(m) == [m EXCEPT !.repCount = 0, !.state = "extended"]

\* ------------------------------------------------------------ deadlift
DeadliftThresholds ==
  [standingHipAngle |-> Deg(160), bendingHipAngle |-> Deg(120), bottomHipAngle |-> Deg(90), liftingHipAngle |-> Deg(120)]

NewDeadlift == [state |-> "standing", repCount |-> 0, feedbackMessages |-> <<>>]

\* update() that does not empty feedbackMessages first
DeadliftUpdate_KeepMessages(m, angles, distances) ==
  LET T  == DeadliftThresholds
      m0 == m
      hip == angles.hip
  IN IF Falsy(hip)
       THEN [m0 EXCEPT !.feedbackMessages = Append(@, Msg("warning", "Cannot detect pose"))]
     ELSE IF m0.state = "standing"
       THEN IF hip < T.bendingHipAngle THEN [m0 EXCEPT !.state = "bending"] ELSE m0
     ELSE IF m0.state = "bending"
       THEN IF hip < T.bottomHipAngle THEN [m0 EXCEPT !.state = "bottom"] ELSE m0
     ELSE IF m0.state = "bottom"
       THEN IF hip > T.bottomHipAngle + Deg(10) THEN [m0 EXCEPT !.state = "lifting"] ELSE m0
     ELSE IF m0.state = "lifting"
       THEN IF hip > T.standingHipAngle
              THEN [m0 EXCEPT !.repCount = @ + 1,
                              !.feedbackMessages = Append(@, Msg("success", "Good rep!")),
                              !.state = "standing"]
              ELSE m0
     ELSE m0

DeadliftUpdate(m, angles, distances) ==
  LET T  == DeadliftThresholds
      m0 == [m EXCEPT !.feedbackMessages = <<>>]
      hip == angles.hip
  IN IF Falsy(hip)
       THEN [m0 EXCEPT !.feedbackMessages = Append(@, Msg("warning", "Cannot detect pose"))]
     ELSE IF m0.state = "standing"
       THEN IF hip < T.bendingHipAngle THEN [m0 EXCEPT !.state = "bending"] ELSE m0
     ELSE IF m0.state = "bending"
       THEN IF hip < T.bottomHipAngle THEN [m0 EXCEPT !.state = "bottom"] ELSE m0
     ELSE IF m0.state = "bottom"
       THEN IF hip > T.bottomHipAngle + Deg(10) THEN [m0 EXCEPT !.state = "lifting"] ELSE m0
     ELSE IF m0.state = "lifting"
       THEN IF hip > T.standingHipAngle
              THEN [m0 EXCEPT !.repCount = @ + 1,
                              !.feedbackMessages = Append(@, Msg("success", "Good rep!")),
                              !.state = "standing"]
              ELSE m0
     ELSE m0

DeadliftReset(m) == [m EXCEPT !.repCount = 0, !.state = "standing"]

\* ------------------------------------------------------------- push-up
PushUpThresholds ==
  [upAngle |-> Deg(160), descendingAngle |-> Deg(120), bottomAngle |-> Deg(90), ascendingAngle |-> Deg(120)]

NewPushUp == [state |-> "up", repCount |-> 0, feedbackMessages |-> <<>>]

\* update() that enters bottom below descendingAngle instead of bottomAngle
PushUpUpdate_NoDepth(m, angles, distances) ==
  LET T  == PushUpThresholds
      m0 == [m EXCEPT !.feedbackMessages = <<>>]
      elbow == angles.elbow
  IN IF Falsy(elbow)
       THEN [m0 EXCEPT !.feedbackMessages = Append(@, Msg("warning", "Cannot detect pose"))]
     ELSE IF m0.state = "up"
       THEN IF elbow < T.descendingAngle THEN [m0 EXCEPT !.state = "descending"] ELSE m0
     ELSE IF m0.state = "descending"
       THEN IF elbow < T.descendingAngle THEN [m0 EXCEPT !.state = "bottom"] ELSE m0
     ELSE IF m0.state = "bottom"
       THEN IF elbow > T.bottomAngle + Deg(10) THEN [m0 EXCEPT !.state = "ascending"] ELSE m0
     ELSE IF m0.state = "ascending"
       THEN IF elbow > T.upAngle
              THEN [m0 EXCEPT !.repCount = @ + 1,
                              !.feedbackMessages = Append(@, Msg("success", "Good rep!")),
                              !.state = "up"]
              ELSE m0
     ELSE m0

PushUpUpdate(m, angles, distances) ==
  LET T  == PushUpThresholds
      m0 == [m EXCEPT !.feedbackMessages = <<>>]
      elbow == angles.elbow
  IN IF Falsy(elbow)
       THEN [m0 EXCEPT !.feedbackMessages = Append(@, Msg("warning", "Cannot detect pose"))]
     ELSE IF m0.state = "up"
       THEN IF elbow < T.descendingAngle THEN [m0 EXCEPT !.state = "descending"] ELSE m0
     ELSE IF m0.state = "descending"
       THEN IF elbow < T.bottomAngle THEN [m0 EXCEPT !.state = "bottom"] ELSE m0
     ELSE IF m0.state = "bottom"
       THEN IF elbow > T.bottomAngle + Deg(10) THEN [m0 EXCEPT !.state = "ascending"] ELSE m0
     ELSE IF m0.state = "ascending"
       THEN IF elbow > T.upAngle
              THEN [m0 EXCEPT !.repCount = @ + 1,
                              !.feedbackMessages = Append(@, Msg("success", "Good rep!")),
                              !.state = "up"]
              ELSE m0
     ELSE m0

PushUpReset(m) == [m EXCEPT !.repCount = 0, !.state = "up"]

\* ------------------------------------------------------------- pull-up
PullUpThresholds ==
  [hangingAngle |-> Deg(160), pullingAngle |-> Deg(120), topAngle |-> Deg(90), descendingAngle |-> Deg(120)]

NewPullUp == [state |-> "hanging", repCount |-> 0, feedbackMessages |-> <<>>]

\* update() that counts the rep when the top is left
PullUpUpdate_CountAtTop(m, angles, distances) ==
  LET T  == PullUpThresholds
      m0 == [m EXCEPT !.feedbackMessages = <<>>]
      elbow == angles.elbow
  IN IF Falsy(elbow)
       THEN [m0 EXCEPT !.feedbackMessages = Append(@, Msg("warning", "Cannot detect pose"))]
     ELSE IF m0.state = "hanging"
       THEN IF elbow < T.pullingAngle THEN [m0 EXCEPT !.state = "pulling"] ELSE m0
     ELSE IF m0.state = "pulling"
       THEN IF elbow < T.topAngle THEN [m0 EXCEPT !.state = "top"] ELSE m0
     ELSE IF m0.state = "top"
       THEN IF elbow > T.topAngle + Deg(10)
              THEN [m0 EXCEPT !.repCount = @ + 1,
                              !.feedbackMessages = Append(@, Msg("success", "Good rep!")),
                              !.state = "descending"]
              ELSE m0
     ELSE IF m0.state = "descending"
       THEN IF elbow > T.hangingAngle THEN [m0 EXCEPT !.state = "hanging"] ELSE m0
     ELSE m0

PullUpUpdate(m, angles, distances) ==
  LET T  == PullUpThresholds
      m0 == [m EXCEPT !.feedbackMessages = <<>>]
      elbow == angles.elbow
  IN IF Falsy(elbow)
       THEN [m0 EXCEPT !.feedbackMessages = Append(@, Msg("warning", "Cannot detect pose"))]
     ELSE IF m0.state = "hanging"
       THEN IF elbow < T.pullingAngle THEN [m0 EXCEPT !.state = "pulling"] ELSE m0
     ELSE IF m0.state = "pulling"
       THEN IF elbow < T.topAngle THEN [m0 EXCEPT !.state = "top"] ELSE m0
     ELSE IF m0.state = "top"
       THEN IF elbow > T.topAngle + Deg(10) THEN [m0 EXCEPT !.state = "descending"] ELSE m0
     ELSE IF m0.state = "descending"
       THEN IF elbow > T.hangingAngle
              THEN [m0 EXCEPT !.repCount = @ + 1,
                              !.feedbackMessages = Append(@, Msg("success", "Good rep!")),
                              !.state = "hanging"]
              ELSE m0
     ELSE m0

PullUpReset(m) == [m EXCEPT !.repCount = 0, !.state = "hanging"]

\* --------------------------------------------------------------- lunge
LungeThresholds ==
  [standingKneeAngle |-> Deg(160), descendingKneeAngle |-> Deg(120), bottomKneeAngle |-> Deg(90), ascendingKneeAngle |-> Deg(120)]

NewLunge == [state |-> "standing", repCount |-> 0, feedbackMessages |-> <<>>]

\* update() whose bottom case falls through into the ascending case
LungeUpdate_FallThrough(m, angles, distances) ==
  LET T  == LungeThresholds
      m0 == [m EXCEPT !.feedbackMessages = <<>>]
      knee == angles.knee
  IN IF Falsy(knee)
       THEN [m0 EXCEPT !.feedbackMessages = Append(@, Msg("warning", "Cannot detect pose"))]
     ELSE IF m0.state = "standing"
       THEN IF knee < T.descendingKneeAngle THEN [m0 EXCEPT !.state = "descending"] ELSE m0
     ELSE IF m0.state = "descending"
       THEN IF knee < T.bottomKneeAngle THEN [m0 EXCEPT !.state = "bottom"] ELSE m0
     ELSE IF m0.state = "bottom"
       THEN IF knee > T.bottomKneeAngle + Deg(10)
              THEN IF knee > T.standingKneeAngle
                     THEN [m0 EXCEPT !.repCount = @ + 1,
                                     !.feedbackMessages = Append(@, Msg("success", "Good rep!")),
                                     !.state = "standing"]
                     ELSE [m0 EXCEPT !.state = "ascending"]
              ELSE m0
     ELSE IF m0.state = "ascending"
       THEN IF knee > T.standingKneeAngle
              THEN [m0 EXCEPT !.repCount = @ + 1,
                              !.feedbackMessages = Append(@, Msg("success", "Good rep!")),
                              !.state = "standing"]
              ELSE m0
     ELSE m0

LungeUpdate(m, angles, distances) ==
  LET T  == LungeThresholds
      m0 == [m EXCEPT !.feedbackMessages = <<>>]
      knee == angles.knee
  IN IF Falsy(knee)
       THEN [m0 EXCEPT !.feedbackMessages = Append(@, Msg("warning", "Cannot detect pose"))]
     ELSE IF m0.state = "standing"
       THEN IF knee < T.descendingKneeAngle THEN [m0 EXCEPT !.state = "descending"] ELSE m0
     ELSE IF m0.state = "descending"
       THEN IF knee < T.bottomKneeAngle THEN [m0 EXCEPT !.state = "bottom"] ELSE m0
     ELSE IF m0.state = "bottom"
       THEN IF knee > T.bottomKneeAngle + Deg(10) THEN [m0 EXCEPT !.state = "ascending"] ELSE m0
     ELSE IF m0.state = "ascending"
       THEN IF knee > T.standingKneeAngle
              THEN [m0 EXCEPT !.repCount = @ + 1,
                              !.feedbackMessages = Append(@, Msg("success", "Good rep!")),
                              !.state = "standing"]
              ELSE m0
     ELSE m0

LungeReset(m) == [m EXCEPT !.repCount = 0, !.state = "standing"]

\* ------------------------------------------------------- shoulder press
ShoulderPressThresholds ==
  [downElbowAngle |-> Deg(100), upElbowAngle |-> Deg(160), armBalanceTolerance |-> Deg(20)]

NewShoulderPress == [state |-> "down", repCount |-> 0, feedbackMessages |-> <<>>]

Abs(x) == IF x < 0 THEN -x ELSE x

\* update() that needs the left elbow
ShoulderPressUpdate_LeftOnly(m, angles, positions) ==
  LET T  == ShoulderPressThresholds
      m0 == [m EXCEPT !.feedbackMessages = <<>>]
      leftElbow  == angles.leftElbow
      rightElbow == angles.rightElbow
      both == ~Falsy(leftElbow) /\ ~Falsy(rightElbow)
      avgElbow2 == IF both THEN leftElbow + rightElbow
                   ELSE IF ~Falsy(leftElbow) THEN 2 * leftElbow ELSE 2 * rightElbow
      m1 == IF both /\ Abs(leftElbow - rightElbow) > T.armBalanceTolerance
              THEN [m0 EXCEPT !.feedbackMessages =
                                 Append(@, Msg("warning", "Balance both arms evenly"))]
              ELSE m0
  IN IF Falsy(leftElbow)
       THEN [m0 EXCEPT !.feedbackMessages =
                          Append(@, Msg("warning", "Face camera - ensure arms visible"))]
     ELSE IF m1.state = "down"
       THEN IF avgElbow2 > 2 * T.upElbowAngle THEN [m1 EXCEPT !.state = "up"] ELSE m1
     ELSE IF m1.state = "up"
       THEN IF avgElbow2 < 2 * T.downElbowAngle
              THEN [m1 EXCEPT !.repCount = @ + 1,
                              !.feedbackMessages = Append(@, Msg("success", "Good rep!")),
                              !.state = "down"]
              ELSE m1
     ELSE m1

\* avgElbow is (leftElbow + rightElbow) / 2, which need not be a whole
\* number of hundredths: the model keeps twice the average and compares it
\* with twice the threshold.
ShoulderPressUpdate(m, angles, positions) ==
  LET T  == ShoulderPressThresholds
      m0 == [m EXCEPT !.feedbackMessages = <<>>]
      leftElbow  == angles.leftElbow
      rightElbow == angles.rightElbow
      both == ~Falsy(leftElbow) /\ ~Falsy(rightElbow)
      avgElbow2 == IF both THEN leftElbow + rightElbow
                   ELSE IF ~Falsy(leftElbow) THEN 2 * leftElbow ELSE 2 * rightElbow
      m1 == IF both /\ Abs(leftElbow - rightElbow) > T.armBalanceTolerance
              THEN [m0 EXCEPT !.feedbackMessages =
                                 Append(@, Msg("warning", "Balance both arms evenly"))]
              ELSE m0
  IN IF Falsy(leftElbow) /\ Falsy(rightElbow)
       THEN [m0 EXCEPT !.feedbackMessages =
                          Append(@, Msg("warning", "Face camera - ensure arms visible"))]
     ELSE IF m1.state = "down"
       THEN IF avgElbow2 > 2 * T.upElbowAngle THEN [m1 EXCEPT !.state = "up"] ELSE m1
     ELSE IF m1.state = "up"
       THEN IF avgElbow2 < 2 * T.downElbowAngle
              THEN [m1 EXCEPT !.repCount = @ + 1,
                              !.feedbackMessages = Append(@, Msg("success", "Good rep!")),
                              !.state = "down"]
              ELSE m1
     ELSE m1

ShoulderPressReset(m) == [m EXCEPT !.repCount = 0, !.state = "down"]

\* -------------------------------------------------------- lateral raise
LateralRaiseThresholds ==
  [downAngle |-> Deg(30), raisingAngle |-> Deg(60), topAngle |-> Deg(90), loweringAngle |-> Deg(60)]

NewLateralRaise == [state |-> "down", repCount |-> 0, feedbackMessages |-> <<>>]

LateralRaiseUpdate_WideBand(m, angles, distances) ==
  LET T  == LateralRaiseThresholds
      m0 == [m EXCEPT !.feedbackMessages = <<>>]
      shoulder == angles.shoulder
  IN IF Falsy(shoulder)
       THEN [m0 EXCEPT !.feedbackMessages = Append(@, Msg("warning", "Cannot detect pose"))]
     ELSE IF m0.state = "down"
       THEN IF shoulder > T.raisingAngle THEN [m0 EXCEPT !.state = "raising"] ELSE m0
     ELSE IF m0.state = "raising"
       THEN IF shoulder > T.topAngle THEN [m0 EXCEPT !.state = "top"] ELSE m0
     ELSE IF m0.state = "top"
       THEN IF shoulder < T.topAngle - Deg(30) THEN [m0 EXCEPT !.state = "lowering"] ELSE m0
     ELSE IF m0.state = "lowering"
       THEN IF shoulder < T.downAngle
              THEN [m0 EXCEPT !.repCount = @ + 1,
                              !.feedbackMessages = Append(@, Msg("success", "Good rep!")),
                              !.state = "down"]
              ELSE m0
     ELSE m0

LateralRaiseUpdate(m, angles, distances) ==
  LET T  == LateralRaiseThresholds
      m0 == [m EXCEPT !.feedbackMessages = <<>>]
      shoulder == angles.shoulder
  IN IF Falsy(shoulder)
       THEN [m0 EXCEPT !.feedbackMessages = Append(@, Msg("warning", "Cannot detect pose"))]
     ELSE IF m0.state = "down"
       THEN IF shoulder > T.raisingAngle THEN [m0 EXCEPT !.state = "raising"] ELSE m0
     ELSE IF m0.state = "raising"
       THEN IF shoulder > T.topAngle THEN [m0 EXCEPT !.state = "top"] ELSE m0
     ELSE IF m0.state = "top"
       THEN IF shoulder < T.topAngle - Deg(10) THEN [m0 EXCEPT !.state = "lowering"] ELSE m0
     ELSE IF m0.state = "lowering"
       THEN IF shoulder < T.downAngle
              THEN [m0 EXCEPT !.repCount = @ + 1,
                              !.feedbackMessages = Append(@, Msg("success", "Good rep!")),
                              !.state = "down"]
              ELSE m0
     ELSE m0

LateralRaiseReset(m) == [m EXCEPT !.repCount = 0, !.state = "down"]

\* ------------------------------------------------------------- dispatch
\* sm.update(angles, distances) on the machine of kind k
Update(k, m, angles, distances) ==
  CASE k = "squat"         -> SquatUpdate(m, angles, distances)
    [] k = "bench"         -> BenchPressUpdate(m, angles, distances)
    [] k = "deadlift"      -> DeadliftUpdate(m, angles, distances)
    [] k = "pushup"        -> PushUpUpdate(m, angles, distances)
    [] k = "pullup"        -> PullUpUpdate(m, angles, distances)
    [] k = "shoulderpress" -> ShoulderPressUpdate(m, angles, distances)
    [] k = "lateralraise"  -> LateralRaiseUpdate(m, angles, distances)
    [] k = "lunge"         -> LungeUpdate(m, angles, distances)

\* sm.reset() on the machine of kind k
Reset(k, m) ==
  CASE k = "squat"         -> SquatReset(m)
    [] k = "bench"         -> BenchPressReset(m)
    [] k = "deadlift"      -> DeadliftReset(m)
    [] k = "pushup"        -> PushUpReset(m)
    [] k = "pullup"        -> PullUpReset(m)
    [] k = "shoulderpress" -> ShoulderPressReset(m)
    [] k = "lateralraise"  -> LateralRaiseReset(m)
    [] k = "lunge"         -> LungeReset(m)

\* initializeStateMachines(): one fresh machine per kind
initializeStateMachines ==
  [k \in Kinds |->
     CASE k = "squat"         -> NewSquat
       [] k = "bench"         -> NewBenchPress
       [] k = "deadlift"      -> NewDeadlift
       [] k = "pushup"        -> NewPushUp
       [] k = "pullup"        -> NewPullUp
       [] k = "shoulderpress" -> NewShoulderPress
       [] k = "lateralraise"  -> NewLateralRaise
       [] k = "lunge"         -> NewLunge]

InitialPhase(k) == initializeStateMachines[k].state


\* ======================================================================
\* Geometry helpers.  Points are <<x, y>> on an integer grid; Math.atan2 is
\* tabulated for the direction vectors (dy, dx) in -2..2 of that grid.
\* ======================================================================
\* Math.atan2(dy, dx) * (180 / Math.PI), rounded to 0.01 degree
Atan2Deg(dy, dx) ==
  LET table == << <<-13500, -11657, -9000, -6343, -4500>>,
                  <<-15343, -13500, -9000, -4500, -2657>>,
                  << 18000,  18000,     0,     0,     0>>,
                  << 15343,  13500,  9000,  4500,  2657>>,
                  << 13500,  11657,  9000,  6343,  4500>> >>
  IN table[dy + 3][dx + 3]

calculateAngle(pointA, pointB, pointC) ==
  IF pointA = NoPoint \/ pointB = NoPoint \/ pointC = NoPoint THEN Null
  ELSE LET radians1 == Atan2Deg(pointA[2] - pointB[2], pointA[1] - pointB[1])
           radians2 == Atan2Deg(pointC[2] - pointB[2], pointC[1] - pointB[1])
           angle    == Abs(radians1 - radians2)
       IN IF angle > Deg(180) THEN Deg(360) - angle ELSE angle

calculateVerticalAngle(point1, point2) ==
  IF point1 = NoPoint \/ point2 = NoPoint THEN Null
  ELSE LET dx == point2[1] - point1[1]
           dy == point2[2] - point1[2]
       IN Abs(Atan2Deg(dx, dy))

calculateHorizontalDistance(point1, point2) ==
  IF point1 = NoPoint \/ point2 = NoPoint THEN Null
  ELSE Abs(point1[1] - point2[1])

\* Math.sqrt(v) in hundredths, rounded down
SqrtHundredths(v) ==
  CHOOSE r \in 0..300 : r * r <= 10000 * v /\ (r + 1) * (r + 1) > 10000 * v

\* calculateDistance that returns 0 when a point is missing
calculateDistance_ZeroOnMissing(point1, point2) ==
  IF point1 = NoPoint \/ point2 = NoPoint THEN 0
  ELSE LET dx == point2[1] - point1[1]
           dy == point2[2] - point1[2]
       IN SqrtHundredths(dx * dx + dy * dy)

calculateDistance(point1, point2) ==
  IF point1 = NoPoint \/ point2 = NoPoint THEN Null
  ELSE LET dx == point2[1] - point1[1]
           dy == point2[2] - point1[2]
       IN SqrtHundredths(dx * dx + dy * dy)

\* ======================================================================
\* Frame processing: from the keypoints of a pose to the AngleSet and the
\* DistanceSet of the active exercise.  The keypoints array is a function
\* from its property keys "0".."16" (a JS array index is the property key
\* that spells the number) to [x, y, score]; scores are in hundredths.
\* ======================================================================
MinConfidence == 30

\* getPoint(index): keypoints[index] when it exists and is confident enough
getPoint(keypoints, index) ==
  IF index \notin DOMAIN keypoints THEN NoPoint
  ELSE LET kp == keypoints[index]
       IN IF kp.score >= MinConfidence THEN <<kp.x, kp.y>> ELSE NoPoint

\* a || b on two points
OrElse(a, b) == IF a # NoPoint THEN a ELSE b

\* the switch of updateExerciseState: angles and distances of the exercise
ExerciseAngles(exercise, keypoints) ==
  LET P(i) == getPoint(keypoints, i)
  IN CASE exercise = "squat" ->
            LET shoulder == OrElse(P("5"), P("6"))
                hip      == OrElse(P("11"), P("12"))
                knee     == OrElse(P("13"), P("14"))
                ankle    == OrElse(P("15"), P("16"))
            IN IF hip # NoPoint /\ knee # NoPoint /\ ankle # NoPoint /\ shoulder # NoPoint
                 THEN [angles |-> [NoAngles EXCEPT
                                     !.knee = calculateAngle(hip, knee, ankle),
                                     !.hip = calculateAngle(shoulder, hip, knee),
                                     !.torsoLean = calculateVerticalAngle(shoulder, hip)],
                       distances |-> [NoDistances EXCEPT
                                     !.kneeToe = calculateHorizontalDistance(knee, ankle),
                                     !.legLength = Abs(hip[2] - ankle[2])]]
                 ELSE [angles |-> NoAngles, distances |-> NoDistances]
       [] exercise \in {"bench", "pushup"} ->
            LET shoulder == OrElse(P("left_shoulder"), P("right_shoulder"))
                elbow    == OrElse(P("left_elbow"), P("right_elbow"))
                wrist    == OrElse(P("left_wrist"), P("right_wrist"))
            IN IF shoulder # NoPoint /\ elbow # NoPoint /\ wrist # NoPoint
                 THEN [angles |-> [NoAngles EXCEPT !.elbow = calculateAngle(shoulder, elbow, wrist)],
                       distances |-> NoDistances]
                 ELSE [angles |-> NoAngles, distances |-> NoDistances]
       [] exercise = "deadlift" ->
            LET shoulder == P("left_shoulder")
                hip      == P("left_hip")
                knee     == P("left_knee")
                ankle    == P("left_ankle")
            IN IF shoulder # NoPoint /\ hip # NoPoint /\ knee # NoPoint /\ ankle # NoPoint
                 THEN [angles |-> [NoAngles EXCEPT
                                     !.hip = calculateAngle(shoulder, hip, knee),
                                     !.knee = calculateAngle(hip, knee, ankle),
                                     !.backAngle = calculateVerticalAngle(shoulder, hip)],
                       distances |-> NoDistances]
                 ELSE [angles |-> NoAngles, distances |-> NoDistances]
       [] exercise = "pullup" ->
            LET shoulder == OrElse(P("5"), P("6"))
                elbow    == OrElse(P("7"), P("8"))
                wrist    == OrElse(P("9"), P("10"))
            IN IF shoulder # NoPoint /\ elbow # NoPoint /\ wrist # NoPoint
                 THEN [angles |-> [NoAngles EXCEPT !.elbow = calculateAngle(shoulder, elbow, wrist)],
                       distances |-> NoDistances]
                 ELSE [angles |-> NoAngles, distances |-> NoDistances]
       [] exercise = "shoulderpress" ->
            LET leftShoulder  == P("5")
                leftElbow     == P("7")
                leftWrist     == P("9")
                rightShoulder == P("6")
                rightElbow    == P("8")
                rightWrist    == P("10")
            IN [angles |-> [NoAngles EXCEPT
                              !.leftElbow =
                                 IF leftShoulder # NoPoint /\ leftElbow # NoPoint /\ leftWrist # NoPoint
                                   THEN calculateAngle(leftShoulder, leftElbow, leftWrist) ELSE Null,
                              !.rightElbow =
                                 IF rightShoulder # NoPoint /\ rightElbow # NoPoint /\ rightWrist # NoPoint
                                   THEN calculateAngle(rightShoulder, rightElbow, rightWrist) ELSE Null],
                distances |-> [NoDistances EXCEPT
                              !.leftWrist = leftWrist, !.rightWrist = rightWrist,
                              !.leftShoulder = leftShoulder, !.rightShoulder = rightShoulder]]
       [] exercise = "lateralraise" ->
            LET shoulder == OrElse(P("5"), P("6"))
                elbow    == OrElse(P("7"), P("8"))
                hip      == OrElse(P("11"), P("12"))
            IN IF shoulder # NoPoint /\ elbow # NoPoint /\ hip # NoPoint
                 THEN [angles |-> [NoAngles EXCEPT !.shoulder = calculateAngle(hip, shoulder, elbow)],
                       distances |-> NoDistances]
                 ELSE [angles |-> NoAngles, distances |-> NoDistances]
       [] exercise = "lunge" ->
            LET hip   == OrElse(P("11"), P("12"))
                knee  == OrElse(P("13"), P("14"))
                ankle == OrElse(P("15"), P("16"))
            IN IF hip # NoPoint /\ knee # NoPoint /\ ankle # NoPoint
                 THEN [angles |-> [NoAngles EXCEPT !.knee = calculateAngle(hip, knee, ankle)],
                       distances |-> NoDistances]
                 ELSE [angles |-> NoAngles, distances |-> NoDistances]

\* ======================================================================
\* The poses the pose source delivers: a few body postures, each seen
\* under a few patterns of keypoint confidence.
\* ======================================================================
Plus(p, v) == <<p[1] + v[1], p[2] + v[2]>>

\* an arm is the vector shoulder->elbow and the vector elbow->wrist
ArmDown      == [ev |-> <<1, 2>>,  wv |-> <<1, 2>>]     \* elbow 180, abduction 26.57
ArmBent117   == [ev |-> <<1, 2>>,  wv |-> <<2, 0>>]     \* elbow 116.57
ArmBent53    == [ev |-> <<1, 2>>,  wv |-> <<1, -2>>]    \* elbow 53.13
ArmRaised63  == [ev |-> <<2, 1>>,  wv |-> <<2, 1>>]     \* elbow 180, abduction 63.43
ArmRaised117 == [ev |-> <<2, -1>>, wv |-> <<2, -1>>]    \* elbow 180, abduction 116.57

\* a leg is the vector knee->hip; the shin hangs straight down
LegStraight == <<0, -2>>     \* knee 180
LegBent135  == <<-1, -1>>    \* knee 135
LegBent117  == <<-2, -1>>    \* knee 116.57
LegBent63   == <<-2, 1>>     \* knee 63.43

Body(armL, armR, leg) ==
  LET shoulder == <<0, 0>>
      hip      == <<0, 2>>
      knee     == <<hip[1] - leg[1], hip[2] - leg[2]>>
      ankle    == Plus(knee, <<0, 2>>)
  IN [shoulder |-> shoulder, hip |-> hip, knee |-> knee, ankle |-> ankle,
      elbowL |-> Plus(shoulder, armL.ev), wristL |-> Plus(Plus(shoulder, armL.ev), armL.wv),
      elbowR |-> Plus(shoulder, armR.ev), wristR |-> Plus(Plus(shoulder, armR.ev), armR.wv)]

Postures ==
  {Body(a, a, LegStraight) : a \in {ArmDown, ArmBent117, ArmBent53, ArmRaised63, ArmRaised117}}
  \cup {Body(ArmDown, ArmDown, l) : l \in {LegBent135, LegBent117, LegBent63}}
  \cup {Body(ArmDown, ArmBent117, LegStraight)}

LeftKeys  == {"5", "7", "9", "11", "13", "15"}
RightKeys == {"6", "8", "10", "12", "14", "16"}
FaceKeys  == {"0", "1", "2", "3", "4"}

\* confidence patterns: key -> score in hundredths
Confidences ==
  { [k \in LeftKeys \cup RightKeys \cup FaceKeys |-> 90],
    [k \in LeftKeys \cup RightKeys \cup FaceKeys |-> IF k \in RightKeys THEN 29 ELSE 30],
    [k \in LeftKeys \cup RightKeys \cup FaceKeys |-> IF k \in RightKeys THEN 90 ELSE 29],
    [k \in LeftKeys \cup RightKeys \cup FaceKeys |->
        IF k \in {"5", "9", "11", "8", "14", "16"} \cup FaceKeys THEN 90 ELSE 29],
    [k \in LeftKeys \cup RightKeys \cup FaceKeys |-> 29] }

PositionOf(b, k) ==
  CASE k \in {"5", "6"}   -> b.shoulder
    [] k = "7"            -> b.elbowL
    [] k = "8"            -> b.elbowR
    [] k = "9"            -> b.wristL
    [] k = "10"           -> b.wristR
    [] k \in {"11", "12"} -> b.hip
    [] k \in {"13", "14"} -> b.knee
    [] k \in {"15", "16"} -> b.ankle
    [] OTHER              -> <<0, -1>>

MakePose(b, c) ==
  [keypoints |-> [k \in DOMAIN c |->
                    [x |-> PositionOf(b, k)[1], y |-> PositionOf(b, k)[2], score |-> c[k]]]]

Poses == {MakePose(b, c) : b \in Postures, c \in Confidences}

\* what detector.estimatePoses resolves to: no pose or one pose
PoseResults == {<<>>} \cup {<<pose>> : pose \in Poses}

\* ======================================================================
\* WorkoutTracker: session controller and frame loop
\* ======================================================================
Calories == 1

Ids == 1..(MaxLoops + 1)

\* the exercises the user picks from in the explored sessions
SessionKinds == {"squat", "pushup", "shoulderpress"}

\* the video element is rendered, and videoRef.current set, while the
\* workout is active
videoMounted == isWorkoutActive

\* an effect of the last render has not run yet
EffectsPending ==
  \/ isCountingRef # isCounting
  \/ currentExerciseRef # currentExercise
  \/ activeSeen # isWorkoutActive

Loops == Cardinality(rafPending) + awaiting

\* the id requestAnimationFrame returns: one that names no pending callback
FreshId == CHOOSE id \in Ids : id \notin rafPending /\ id # animationRef

\* speakFeedback(message): spoken only when text-to-speech is on
speakFeedback(message) == spoken' = IF ttsEnabled THEN message ELSE spoken

\* no form measurement
NoForm == [torsoLean |-> Null, kneeToe |-> Null, legLength |-> Null]

\* no call of the geometry helpers
NoGeo ==
  [pointA |-> NoPoint, pointB |-> NoPoint, pointC |-> NoPoint, called |-> FALSE,
   angle |-> Null, vertical |-> Null, horizontal |-> Null, distance |-> Null]

\* the inputs are free
NoJitter == [around |-> Null, base |-> 0]

\* the harness variables when nothing was observed yet
InitHarness ==
  /\ fed = <<>> /\ needed = FALSE /\ form = NoForm /\ seen = FALSE
  /\ geo = NoGeo /\ since = {} /\ jitter = NoJitter

\* the component once the model is loaded and the machines are constructed
InitProgram ==
  /\ sm = initializeStateMachines
  /\ stateMachineRef = "squat"
  /\ isCountingRef = FALSE
  /\ currentExerciseRef = "squat"
  /\ animationRef = Null
  /\ isWorkoutActive = FALSE
  /\ isCounting = FALSE
  /\ currentExercise = "squat"
  /\ repCount = 0
  /\ workoutLog = <<>>
  /\ isCalculating = FALSE
  /\ caloriesResult = Null
  /\ showResult = FALSE
  /\ activeSeen = FALSE
  /\ voiceRepCount = 0
  /\ tracksLive = FALSE
  /\ camStarting = 0
  /\ rafPending = {}
  /\ awaiting = 0
  /\ fetches = 0
  /\ resetTimers = 0
  /\ sent = <<>>
  /\ nUpdates = 0
  /\ spoken = ""

Init ==
  /\ InitProgram
  /\ ut = "squat"
  /\ InitHarness
  /\ script = <<>>
  /\ ttsEnabled = FALSE

\* ------------------------------------------------------------ frame loop
\* the body of detect() up to its first await or to its end
\*   ready: video.readyState === 4; fired: the callback ids this run consumed
DetectBody(ready, fired) ==
  IF ready
    THEN /\ awaiting' = awaiting + 1
         /\ rafPending' = rafPending \ fired
         /\ UNCHANGED animationRef
    ELSE /\ animationRef' = FreshId
         /\ rafPending' = (rafPending \ fired) \cup {FreshId}
         /\ UNCHANGED awaiting

\* getUserMedia resolved and the video metadata loaded: startCamera goes on
\* to detectPose(), whose first detect() call is direct
CameraReady ==
  /\ camStarting > 0
  /\ camStarting' = camStarting - 1
  /\ tracksLive' = TRUE
  /\ IF videoMounted
       THEN \E ready \in BOOLEAN : DetectBody(ready, {})
       ELSE UNCHANGED <<animationRef, rafPending, awaiting>>
  /\ UNCHANGED <<sm, stateMachineRef, isCountingRef, currentExerciseRef, state, react, net, nUpdates>>
  /\ UNCHANGED spoken
\* getUserMedia rejected: startCamera only reports it
CameraFail ==
  /\ camStarting > 0
  /\ camStarting' = camStarting - 1
  /\ UNCHANGED <<refs, state, react, tracksLive, rafPending, awaiting, net, nUpdates>>
  /\ UNCHANGED spoken
\* a requested animation frame runs detect()
FrameFire ==
  /\ \E id \in rafPending : \E ready \in BOOLEAN : DetectBody(ready, {id})
  /\ UNCHANGED <<sm, stateMachineRef, isCountingRef, currentExerciseRef, state, react,
                 tracksLive, camStarting, net, nUpdates>>
  /\ UNCHANGED spoken
updateExerciseState(pose) ==
  LET r  == ExerciseAngles(currentExerciseRef, pose.keypoints)
      m  == sm[stateMachineRef]
      m2 == Update(stateMachineRef, m, r.angles, r.distances)
  IN /\ sm' = [sm EXCEPT ![stateMachineRef] = m2]
     /\ repCount' = IF m2.repCount > m.repCount THEN m2.repCount ELSE repCount
     /\ IF m2.repCount > m.repCount
          THEN speakFeedback("Rep " \o ToString(m2.repCount))
          ELSE UNCHANGED spoken
     /\ nUpdates' = nUpdates + 1

\* the rest of detect() without the check of isCountingRef.current
EstimateResolve_NoFlag(poses) ==
  /\ awaiting > 0
  /\ awaiting' = awaiting - 1
  /\ IF Len(poses) > 0
       THEN updateExerciseState(poses[1])
       ELSE UNCHANGED <<sm, repCount, nUpdates, spoken>>
  /\ animationRef' = FreshId
  /\ rafPending' = rafPending \cup {FreshId}
  /\ UNCHANGED <<stateMachineRef, isCountingRef, currentExerciseRef,
                 isWorkoutActive, isCounting, currentExercise, workoutLog,
                 isCalculating, caloriesResult, showResult, react,
                 tracksLive, camStarting, net>>

\* estimatePoses resolved with poses: the rest of detect()
EstimateResolve(poses) ==
  /\ awaiting > 0
  /\ awaiting' = awaiting - 1
  /\ IF Len(poses) > 0 /\ isCountingRef
       THEN updateExerciseState(poses[1])
       ELSE UNCHANGED <<sm, repCount, nUpdates, spoken>>
  /\ animationRef' = FreshId
  /\ rafPending' = rafPending \cup {FreshId}
  /\ UNCHANGED <<stateMachineRef, isCountingRef, currentExerciseRef,
                 isWorkoutActive, isCounting, currentExercise, workoutLog,
                 isCalculating, caloriesResult, showResult, react,
                 tracksLive, camStarting, net>>

\* estimatePoses rejected: detect() ends with an unhandled rejection
EstimateReject ==
  /\ awaiting > 0
  /\ awaiting' = awaiting - 1
  /\ UNCHANGED <<refs, state, react, tracksLive, camStarting, rafPending, net, nUpdates>>
  /\ UNCHANGED spoken
\* ---------------------------------------------------------------- effects
stopCamera ==
  /\ tracksLive' = IF videoMounted /\ tracksLive THEN FALSE ELSE tracksLive
  /\ IF animationRef # Null
       THEN rafPending' = rafPending \ {animationRef} /\ animationRef' = Null
       ELSE UNCHANGED <<rafPending, animationRef>>
  /\ UNCHANGED camStarting

startCamera ==
  /\ camStarting' = camStarting + 1
  /\ UNCHANGED <<tracksLive, rafPending, animationRef>>

\* the effects of the last render: the two ref-sync effects and the camera
\* effect, each run only when one of its dependencies changed
RunEffects ==
  /\ EffectsPending
  /\ isCountingRef' = isCounting
  /\ currentExerciseRef' = currentExercise
  /\ stateMachineRef' = IF currentExerciseRef # currentExercise
                          THEN currentExercise ELSE stateMachineRef
  /\ activeSeen' = isWorkoutActive
  /\ IF activeSeen # isWorkoutActive
       THEN IF isWorkoutActive THEN startCamera ELSE stopCamera
       ELSE UNCHANGED <<tracksLive, camStarting, rafPending, animationRef>>
  /\ UNCHANGED <<sm, state, voiceRepCount, awaiting, net, nUpdates>>
  /\ UNCHANGED spoken
\* ------------------------------------------------------------- handlers
\* 'Start Workout Session' button, or the 'initiate workout' voice command
StartWorkout ==
  /\ ~EffectsPending
  /\ ~isWorkoutActive
  /\ isWorkoutActive' = TRUE
  /\ voiceRepCount' = repCount
  /\ UNCHANGED <<refs, isCounting, currentExercise, repCount,
                 workoutLog, isCalculating, caloriesResult, showResult, activeSeen,
                 loop, net, nUpdates>>
  /\ \/ UNCHANGED spoken
     \/ speakFeedback("Workout session initiated. Select an exercise to begin.")
\* 'Start Counting' button, or the 'begin counting' voice command
handleStartCounting ==
  /\ ~EffectsPending
  /\ isWorkoutActive /\ ~isCounting
  /\ isCounting' = TRUE
  /\ voiceRepCount' = repCount
  /\ UNCHANGED <<refs, isWorkoutActive, currentExercise, repCount,
                 workoutLog, isCalculating, caloriesResult, showResult, activeSeen,
                 loop, net, nUpdates>>
  /\ speakFeedback("Starting " \o currentExercise \o ". Let's go!")
InLog(log, exercise) == \E i \in DOMAIN log : log[i].exercise = exercise

\* existingLog.reps += reps on the entry of the exercise
AddToEntry(log, exercise, reps) ==
  [i \in DOMAIN log |->
     IF log[i].exercise = exercise THEN [log[i] EXCEPT !.reps = @ + reps] ELSE log[i]]

\* the log with a new entry appended whether or not the exercise has one
Logged_AlwaysAppend(log, exercise, reps) ==
  Append(log, [exercise |-> exercise, reps |-> reps])

\* the log with the reps of the exercise added, as both handlers build it
Logged(log, exercise, reps) ==
  IF InLog(log, exercise)
    THEN AddToEntry(log, exercise, reps)
    ELSE Append(log, [exercise |-> exercise, reps |-> reps])

RepsOf(log, exercise) ==
  IF InLog(log, exercise)
    THEN (CHOOSE e \in {log[i] : i \in DOMAIN log} : e.exercise = exercise).reps
    ELSE 0

\* 'Pause Counting' button
handleStopCounting ==
  /\ ~EffectsPending
  /\ isWorkoutActive /\ isCounting
  /\ IF isCounting /\ repCount > 0
       THEN workoutLog' = Logged(workoutLog, currentExercise, repCount)
       ELSE UNCHANGED workoutLog
  /\ isCounting' = FALSE
  /\ voiceRepCount' = repCount
  /\ UNCHANGED <<refs, isWorkoutActive, currentExercise, repCount,
                 isCalculating, caloriesResult, showResult, activeSeen, loop, net, nUpdates>>
  /\ speakFeedback("Counting paused.")
\* 'stop counting' / 'pause counting' voice command
VoiceStopCounting ==
  /\ ~EffectsPending
  /\ isCounting
  /\ isCounting' = FALSE
  /\ voiceRepCount' = repCount
  /\ UNCHANGED <<refs, isWorkoutActive, currentExercise, repCount,
                 workoutLog, isCalculating, caloriesResult, showResult, activeSeen,
                 loop, net, nUpdates>>
  /\ speakFeedback("Counting paused.")
\* handleExerciseChange(exercise) without the check of isCounting
handleExerciseChange_NoCheck(exercise) ==
  /\ ~EffectsPending
  /\ isWorkoutActive
  /\ IF FALSE
       THEN /\ speakFeedback("Please stop counting before changing exercise.")
            /\ UNCHANGED <<currentExercise, stateMachineRef, repCount,
                           voiceRepCount>>
       ELSE /\ currentExercise' = exercise
            /\ UNCHANGED spoken
            /\ stateMachineRef' = exercise
            /\ repCount' = 0
            /\ voiceRepCount' = IF exercise # currentExercise THEN 0 ELSE voiceRepCount
  /\ UNCHANGED <<sm, isCountingRef, currentExerciseRef, animationRef,
                 isWorkoutActive, isCounting, workoutLog, isCalculating, caloriesResult,
                 showResult, activeSeen, loop, net, nUpdates>>

\* handleExerciseChange(exercise) that resets the machine it switches to
handleExerciseChange_ResetMachine(exercise) ==
  /\ ~EffectsPending
  /\ isWorkoutActive
  /\ IF isCounting
       THEN /\ speakFeedback("Please stop counting before changing exercise.")
            /\ UNCHANGED <<currentExercise, stateMachineRef, repCount,
                           voiceRepCount, sm>>
       ELSE /\ currentExercise' = exercise
            /\ UNCHANGED spoken
            /\ stateMachineRef' = exercise
            /\ sm' = [sm EXCEPT ![exercise] = Reset(exercise, @)]
            /\ repCount' = 0
            /\ voiceRepCount' = IF exercise # currentExercise THEN 0 ELSE voiceRepCount
  /\ UNCHANGED <<isCountingRef, currentExerciseRef, animationRef,
                 isWorkoutActive, isCounting, workoutLog, isCalculating, caloriesResult,
                 showResult, activeSeen, loop, net, nUpdates>>

\* handleExerciseChange(exercise)
handleExerciseChange(exercise) ==
  /\ ~EffectsPending
  /\ isWorkoutActive
  /\ IF isCounting
       THEN /\ speakFeedback("Please stop counting before changing exercise.")
            /\ UNCHANGED <<currentExercise, stateMachineRef, repCount,
                           voiceRepCount>>
       ELSE /\ currentExercise' = exercise
            /\ UNCHANGED spoken
            /\ stateMachineRef' = exercise
            /\ repCount' = 0
            /\ voiceRepCount' = IF exercise # currentExercise THEN 0 ELSE voiceRepCount
  /\ UNCHANGED <<sm, isCountingRef, currentExerciseRef, animationRef,
                 isWorkoutActive, isCounting, workoutLog, isCalculating, caloriesResult,
                 showResult, activeSeen, loop, net, nUpdates>>

\* handleEndWorkout up to its await fetch(...), run in a closure that holds
\* reps as its repCount
EndWorkout(reps) ==
  /\ ~EffectsPending
  /\ isWorkoutActive
  /\ isCounting' = FALSE
  /\ isWorkoutActive' = FALSE
  /\ isCalculating' = TRUE
  /\ IF reps > 0
       THEN /\ sent' = Append(sent, Logged(workoutLog, currentExercise, reps))
            /\ workoutLog' = IF InLog(workoutLog, currentExercise)
                               THEN AddToEntry(workoutLog, currentExercise, reps)
                               ELSE workoutLog
       ELSE /\ sent' = Append(sent, workoutLog)
            /\ UNCHANGED workoutLog
  /\ fetches' = fetches + 1
  /\ voiceRepCount' = repCount
  /\ UNCHANGED <<refs, currentExercise, repCount,
                 caloriesResult, showResult, activeSeen, loop, resetTimers, nUpdates>>
  /\ UNCHANGED spoken
\* 'End Workout' button: the closure of the current render
handleEndWorkout == EndWorkout(repCount)

\* 'end workout' voice command: the closure the voice listener captured
VoiceEndWorkout == EndWorkout(voiceRepCount)

\* resetWorkout() without the reset of the machines
resetWorkout_KeepMachines ==
  /\ workoutLog' = <<>>
  /\ repCount' = 0
  /\ caloriesResult' = Null
  /\ sm' = sm

resetWorkout ==
  /\ workoutLog' = <<>>
  /\ repCount' = 0
  /\ caloriesResult' = Null
  /\ sm' = [k \in Kinds |-> Reset(k, sm[k])]

\* the calorie request succeeded: the rest of the try block
FetchOk ==
  /\ fetches > 0
  /\ fetches' = fetches - 1
  /\ caloriesResult' = Calories
  /\ isCalculating' = FALSE
  /\ showResult' = TRUE
  /\ resetTimers' = resetTimers + 1
  /\ sent' = Tail(sent)
  /\ UNCHANGED <<refs, isWorkoutActive, isCounting, currentExercise, repCount,
                 workoutLog, react, loop, nUpdates>>
  /\ speakFeedback("Congratulations! You have burned " \o ToString(Calories) \o " calories!")
\* the calorie request failed: the catch block
FetchFail ==
  /\ fetches > 0
  /\ fetches' = fetches - 1
  /\ isCalculating' = FALSE
  /\ sent' = Tail(sent)
  /\ UNCHANGED <<refs, isWorkoutActive, isCounting, currentExercise, repCount,
                 workoutLog, caloriesResult, showResult, react, loop,
                 resetTimers, nUpdates>>
  /\ UNCHANGED spoken
\* the 5 s timer of handleEndWorkout fires
ResetTimerFire ==
  /\ resetTimers > 0
  /\ resetTimers' = resetTimers - 1
  /\ showResult' = FALSE
  /\ resetWorkout
  /\ voiceRepCount' = 0
  /\ UNCHANGED <<stateMachineRef, isCountingRef, currentExerciseRef, animationRef,
                 isWorkoutActive, isCounting, currentExercise, isCalculating,
                 activeSeen, loop, fetches, sent, nUpdates>>
  /\ UNCHANGED spoken
\* the part of the state space that is explored
Bounded ==
  /\ nUpdates <= MaxUpdates
  /\ camStarting + Loops <= MaxLoops
  /\ fetches <= MaxFetches
  /\ resetTimers <= MaxTimers
  /\ \A i \in DOMAIN workoutLog : workoutLog[i].reps <= MaxLogged
  /\ \A j \in DOMAIN sent : \A i \in DOMAIN sent[j] : sent[j][i].reps <= MaxLogged

\* a click on the button of an exercise, which is disabled while counting
ExerciseButton(exercise) == ~isCounting /\ handleExerciseChange(exercise)

UserAction ==
  \/ StartWorkout
  \/ handleStartCounting
  \/ handleStopCounting
  \/ VoiceStopCounting
  \/ \E exercise \in SessionKinds : ExerciseButton(exercise)
  \/ handleEndWorkout
  \/ VoiceEndWorkout

\* a step of the explored sessions leaves the harness variables alone and
\* stays within the bounds
Explored == UNCHANGED <<harness, script, ttsEnabled>> /\ Bounded'

Next ==
  \/ StartWorkout /\ Explored
  \/ handleStartCounting /\ Explored
  \/ handleStopCounting /\ Explored
  \/ VoiceStopCounting /\ Explored
  \/ \E exercise \in SessionKinds : ExerciseButton(exercise) /\ Explored
  \/ handleEndWorkout /\ Explored
  \/ VoiceEndWorkout /\ Explored
  \/ RunEffects /\ Explored
  \/ CameraReady /\ Explored
  \/ CameraFail /\ Explored
  \/ FrameFire /\ Explored
  \/ \E poses \in PoseResults : EstimateResolve(poses) /\ Explored
  \/ EstimateReject /\ Explored
  \/ FetchOk /\ Explored
  \/ FetchFail /\ Explored
  \/ ResetTimerFire /\ Explored

Spec == Init /\ [][Next]_vars

\* ======================================================================
\* Machine harness: one machine, chosen at the start, is driven by direct
\* update() calls with angles drawn from the values the claims name.
\* ======================================================================
Last(s) == s[Len(s)]

\* the angle(s) of an AngleSet that drive machine k
Driving(k, angles) ==
  CASE k \in {"squat", "lunge"}              -> <<angles.knee>>
    [] k \in {"bench", "pushup", "pullup"}   -> <<angles.elbow>>
    [] k = "deadlift"                        -> <<angles.hip>>
    [] k = "lateralraise"                    -> <<angles.shoulder>>
    [] k = "shoulderpress"                   -> <<angles.leftElbow, angles.rightElbow>>

SquatKnees  == {Null, Deg(170), Deg(140), Deg(130), Deg(125), Deg(115), Deg(100)}
FlexValues  == {Null, Deg(170), Deg(110), Deg(105), Deg(100), Deg(95), Deg(85), Deg(80)}
RaiseValues == {Null, Deg(20), Deg(70), Deg(85), Deg(100)}
PressValues == {Null, Deg(170), Deg(90)}

HarnessInputs(k) ==
  CASE k = "squat"        -> {[NoAngles EXCEPT !.knee = v] : v \in SquatKnees}
    [] k = "lunge"        -> {[NoAngles EXCEPT !.knee = v] : v \in FlexValues}
    [] k \in {"bench", "pushup", "pullup"}
                          -> {[NoAngles EXCEPT !.elbow = v] : v \in FlexValues}
    [] k = "deadlift"     -> {[NoAngles EXCEPT !.hip = v] : v \in FlexValues}
    [] k = "lateralraise" -> {[NoAngles EXCEPT !.shoulder = v] : v \in RaiseValues}
    [] k = "shoulderpress" ->
         {[NoAngles EXCEPT !.leftElbow = l, !.rightElbow = r] : l \in PressValues, r \in PressValues}

\* the program right after construction, with any kind under test
InitSM ==
  /\ InitProgram
  /\ ut \in Kinds
  /\ InitHarness
  /\ script = <<>>
  /\ ttsEnabled = FALSE

\* the form measurements that go with the angles: none, a torso leaning 60
\* degrees, a knee 1 ahead of the toe on a leg of length 4 (ratio 0.25)
FormInputs(k) ==
  IF k = "squat"
    THEN {NoForm, [NoForm EXCEPT !.torsoLean = Deg(60)],
          [NoForm EXCEPT !.kneeToe = 1, !.legLength = 4]}
    ELSE {NoForm}

\* one direct call sm[ut].update(angles, distances)
HarnessUpdate ==
  /\ Len(fed) < MaxFed
  /\ \E angles \in HarnessInputs(ut), f \in FormInputs(ut) :
       /\ sm' = [sm EXCEPT ![ut] =
                   Update(ut, @, [angles EXCEPT !.torsoLean = f.torsoLean],
                          [NoDistances EXCEPT !.kneeToe = f.kneeToe,
                                              !.legLength = f.legLength])]
       /\ fed' = Append(fed, Driving(ut, angles))
       /\ form' = f
  /\ UNCHANGED <<stateMachineRef, isCountingRef, currentExerciseRef, animationRef,
                 state, react, loop, net, nUpdates, ut, needed, seen, script,
                 ttsEnabled, spoken, geo, since, jitter>>

\* one direct call sm[ut].reset(); what is fed afterwards is fed to a reset
\* machine
HarnessReset ==
  /\ sm' = [sm EXCEPT ![ut] = Reset(ut, @)]
  /\ fed' = <<>>
  /\ form' = NoForm
  /\ UNCHANGED <<stateMachineRef, isCountingRef, currentExerciseRef, animationRef,
                 state, react, loop, net, nUpdates, ut, needed, seen, script,
                 ttsEnabled, spoken, geo, since, jitter>>

NextSM == HarnessUpdate \/ HarnessReset

SpecSM == InitSM /\ [][NextSM]_vars

\* a sequence of single driving angles, given in degrees, as a value of fed
One(degs) == [i \in DOMAIN degs |-> <<Deg(degs[i])>>]

HasMsg(m, type, text) ==
  \E i \in DOMAIN m.feedbackMessages : m.feedbackMessages[i] = Msg(type, text)

HasType(m, type) ==
  \E i \in DOMAIN m.feedbackMessages : m.feedbackMessages[i].type = type

\* ---------------------------------------------------------------- C1
\* C1 as stated: a fresh squat machine fed the knee angles 170, 140, 100,
\* 115, 170 ends with repCount = 1 and phase = standing.
C1_Original ==
  (ut = "squat" /\ fed = One(<<170, 140, 100, 115, 170>>))
     => (sm["squat"].repCount = 1 /\ sm["squat"].state = "standing")

\* C1 amended: the same five calls end with repCount = 0 and phase =
\* ascending, because 115 is not above the bottom-exit threshold 110 + 15;
\* with 130 in place of 115 they end with repCount = 1 and phase = standing.
C1_Amended ==
  /\ (ut = "squat" /\ fed = One(<<170, 140, 100, 115, 170>>))
        => (sm["squat"].repCount = 0 /\ sm["squat"].state = "ascending")
  /\ (ut = "squat" /\ fed = One(<<170, 140, 100, 130, 170>>))
        => (sm["squat"].repCount = 1 /\ sm["squat"].state = "standing")

C1_Witness ==
  /\ ut = "squat"
  /\ fed = One(<<170, 140, 100, 115, 170>>)
  /\ sm["squat"].state = "ascending"

\* ---------------------------------------------------------------- C2
\* C2: a fresh squat machine fed the knee angles 170, 140, 125, 170 is back
\* in phase standing with repCount = 0 and a 'Too shallow' feedback entry.
C2_Claim ==
  (ut = "squat" /\ fed = One(<<170, 140, 125, 170>>))
     => /\ sm["squat"].state = "standing"
        /\ sm["squat"].repCount = 0
        /\ HasMsg(sm["squat"], "error", "Too shallow")

\* ---------------------------------------------------------------- C4
AllNull(d) == \A i \in DOMAIN d : d[i] = Null

\* C4: an update() whose driving angle(s) are absent leaves phase and
\* repCount as they were and leaves a warning in feedbackMessages, for every
\* machine and in every phase.
C4_NullFreezes ==
  [][(fed' # fed /\ fed' # <<>> /\ AllNull(Last(fed')))
        => /\ sm'[ut].state = sm[ut].state
           /\ sm'[ut].repCount = sm[ut].repCount
           /\ HasType(sm'[ut], "warning")]_vars

C4_Witness ==
  /\ ut = "shoulderpress"
  /\ Len(fed) = 2
  /\ fed[1] = <<Deg(170), Deg(170)>>
  /\ AllNull(fed[2])
  /\ sm[ut].state = "up"
  /\ HasType(sm[ut], "warning")

\* ---------------------------------------------------------------- C6
FlexKinds == {"bench", "deadlift", "pushup", "pullup", "lunge"}

\* the i-th threshold crossing of kind k's cycle, as the table of phase
\* cycles states it, for a driving input d
Crosses(k, i, d) ==
  IF k \in FlexKinds
    THEN /\ Len(d) = 1 /\ d[1] # Null
         /\ (i = 1 => d[1] < Deg(120))
         /\ (i = 2 => d[1] < Deg(90))
         /\ (i = 3 => d[1] > Deg(90) + Deg(10))
         /\ (i = 4 => d[1] > Deg(160))
  ELSE IF k = "lateralraise"
    THEN /\ Len(d) = 1 /\ d[1] # Null
         /\ (i = 1 => d[1] > Deg(60))
         /\ (i = 2 => d[1] > Deg(90))
         /\ (i = 3 => d[1] < Deg(90) - Deg(10))
         /\ (i = 4 => d[1] < Deg(30))
  ELSE /\ k = "shoulderpress"
       /\ Len(d) = 2 /\ d[1] # Null /\ d[2] # Null
       /\ (i = 1 => d[1] + d[2] > 2 * Deg(160))
       /\ (i = 2 => d[1] + d[2] < 2 * Deg(100))

CycleLen(k) == IF k = "shoulderpress" THEN 2 ELSE 4

\* s crosses every threshold of k's cycle in order, one call per threshold
FullCycle(k, s) ==
  /\ Len(s) = CycleLen(k)
  /\ \A i \in 1..CycleLen(k) : Crosses(k, i, s[i])

\* a rest position: an input that crosses nothing in the initial phase
Rest(k, d) == (\A j \in DOMAIN d : d[j] # Null) /\ ~Crosses(k, 1, d)

\* C6: for the seven kinds other than squat, a fresh machine fed inputs
\* that cross each threshold of the cycle in order (after an optional rest
\* position) has repCount = 1 and is back in its initial phase.
C6_FullCycleCountsOne ==
  (ut # "squat" /\ fed # <<>> /\
     (FullCycle(ut, fed) \/ (Rest(ut, fed[1]) /\ FullCycle(ut, Tail(fed)))))
     => (sm[ut].repCount = 1 /\ sm[ut].state = InitialPhase(ut))

C6_Witness ==
  /\ ut = "lateralraise"
  /\ fed = One(<<20, 70, 100, 70, 20>>)
  /\ sm[ut].repCount = 1
  /\ sm[ut].state = "down"

\* ======================================================================
\* Frame harness: counting is on for the exercise under test, the camera
\* runs and one detect() awaits its pose (the state a session is in after
\* Start Workout, a click on the exercise, Start Counting and the effects);
\* each step is one frame of the loop whose pose is processed.
\* ======================================================================
CountingProgram ==
  /\ sm = initializeStateMachines
  /\ stateMachineRef = ut
  /\ isCountingRef = TRUE
  /\ currentExerciseRef = ut
  /\ animationRef = Null
  /\ isWorkoutActive = TRUE
  /\ isCounting = TRUE
  /\ currentExercise = ut
  /\ repCount = 0
  /\ workoutLog = <<>>
  /\ isCalculating = FALSE
  /\ caloriesResult = Null
  /\ showResult = FALSE
  /\ activeSeen = TRUE
  /\ voiceRepCount = 0
  /\ tracksLive = TRUE
  /\ camStarting = 0
  /\ rafPending = {}
  /\ awaiting = 1
  /\ fetches = 0
  /\ resetTimers = 0
  /\ sent = <<>>
  /\ nUpdates = 0
  /\ spoken = ""

InitFrame ==
  /\ ut \in Kinds
  /\ CountingProgram
  /\ InitHarness
  /\ script = <<>>
  /\ ttsEnabled = FALSE

\* the joints an exercise's driving angle is computed from, each as its
\* left and right keypoint index
Needs(exercise) ==
  CASE exercise \in {"squat", "deadlift"}
         -> {<<"5", "6">>, <<"11", "12">>, <<"13", "14">>, <<"15", "16">>}
    [] exercise \in {"bench", "pushup", "pullup", "shoulderpress"}
         -> {<<"5", "6">>, <<"7", "8">>, <<"9", "10">>}
    [] exercise = "lateralraise"
         -> {<<"5", "6">>, <<"7", "8">>, <<"11", "12">>}
    [] exercise = "lunge"
         -> {<<"11", "12">>, <<"13", "14">>, <<"15", "16">>}

\* every needed joint is confident on the left or, failing that, on the right
NeededVisible(exercise, keypoints) ==
  \A j \in Needs(exercise) :
     keypoints[j[1]].score >= MinConfidence \/ keypoints[j[2]].score >= MinConfidence

\* one iteration of detect() with counting on: the awaited pose arrives,
\* updateExerciseState(pose) runs, the next frame is requested, fires and
\* awaits its pose
HarnessFrame ==
  /\ Len(fed) < MaxFed
  /\ awaiting > 0 /\ isCountingRef
  /\ \E pose \in Poses :
       /\ updateExerciseState(pose)
       /\ fed' = Append(fed, Driving(stateMachineRef,
                                     ExerciseAngles(currentExerciseRef, pose.keypoints).angles))
       /\ needed' = NeededVisible(currentExerciseRef, pose.keypoints)
  /\ UNCHANGED <<stateMachineRef, isCountingRef, currentExerciseRef, animationRef,
                 isWorkoutActive, isCounting, currentExercise, workoutLog,
                 isCalculating, caloriesResult, showResult, react, loop, net,
                 ut, form, seen, script, ttsEnabled, geo, since, jitter>>

NextFrame == HarnessFrame

SpecFrame == InitFrame /\ [][NextFrame]_vars

\* ======================================================================
\* Scripted session: the user steps and the postures the camera sees while
\* counting are taken, in order, from script; effects, camera and frame
\* callbacks interleave freely.
\* ======================================================================
Step(op, arg) == [op |-> op, arg |-> arg]

PostureNamed(name) ==
  CASE name = "LegStraight" -> Body(ArmDown, ArmDown, LegStraight)
    [] name = "LegBent135"  -> Body(ArmDown, ArmDown, LegBent135)
    [] name = "LegBent63"   -> Body(ArmDown, ArmDown, LegBent63)
    [] name = "ArmDown"     -> Body(ArmDown, ArmDown, LegStraight)
    [] name = "ArmBent117"  -> Body(ArmBent117, ArmBent117, LegStraight)
    [] name = "ArmBent53"   -> Body(ArmBent53, ArmBent53, LegStraight)

AllVisible == [k \in LeftKeys \cup RightKeys \cup FaceKeys |-> 90]

\* the frames of one full squat and of one full push-up
SquatRep  == <<Step("frame", "LegBent135"), Step("frame", "LegBent63"),
               Step("frame", "LegBent135"), Step("frame", "LegStraight")>>
PushUpRep == <<Step("frame", "ArmBent117"), Step("frame", "ArmBent53"),
               Step("frame", "ArmBent117"), Step("frame", "ArmDown")>>

Repeat(s, n) == [i \in 1..(n * Len(s)) |-> s[((i - 1) % Len(s)) + 1]]

ScriptSquatFirst ==
  <<Step("start", ""), Step("count", "")>> \o Repeat(SquatRep, 8)
    \o <<Step("pause", ""), Step("switch", "pushup"), Step("count", "")>>
    \o Repeat(PushUpRep, 12) \o <<Step("end", "")>>

ScriptPushUpFirst ==
  <<Step("start", ""), Step("switch", "pushup"), Step("count", "")>>
    \o Repeat(PushUpRep, 12)
    \o <<Step("pause", ""), Step("switch", "squat"), Step("count", "")>>
    \o Repeat(SquatRep, 8) \o <<Step("end", "")>>

InitC3 ==
  /\ InitProgram
  /\ ut = "squat"
  /\ InitHarness
  /\ ttsEnabled = FALSE
  /\ script \in {ScriptSquatFirst, ScriptPushUpFirst}

\* the user's next step
ScriptUser ==
  /\ script # <<>>
  /\ LET s == Head(script)
     IN CASE s.op = "start"  -> StartWorkout
          [] s.op = "count"  -> handleStartCounting
          [] s.op = "pause"  -> handleStopCounting
          [] s.op = "switch" -> handleExerciseChange(s.arg)
          [] s.op = "end"    -> handleEndWorkout
          [] OTHER           -> FALSE
  /\ script' = Tail(script)

\* the next posture of the user is the pose of a frame, while counting shows
ScriptFrame ==
  /\ script # <<>>
  /\ Head(script).op = "frame"
  /\ isCountingRef
  /\ EstimateResolve(<<MakePose(PostureNamed(Head(script).arg), AllVisible)>>)
  /\ script' = Tail(script)

\* a frame in which no pose is detected
EmptyFrame == EstimateResolve(<<>>) /\ UNCHANGED script

NextC3 ==
  \/ ScriptUser /\ UNCHANGED <<harness, ttsEnabled>>
  \/ ScriptFrame /\ UNCHANGED <<harness, ttsEnabled>>
  \/ EmptyFrame /\ UNCHANGED <<harness, ttsEnabled>>
  \/ RunEffects /\ UNCHANGED <<harness, script, ttsEnabled>>
  \/ CameraReady /\ UNCHANGED <<harness, script, ttsEnabled>>
  \/ FrameFire /\ UNCHANGED <<harness, script, ttsEnabled>>

SpecC3 == InitC3 /\ [][NextC3]_vars

\* ---------------------------------------------------------------- C3
\* C3: when the scripted session (8 squats, pause, switch, 12 push-ups, end,
\* in either order) has run to its end, the log handed to the calorie call
\* is exactly {squat: 8, pushup: 12}.
C3_Claim ==
  (script = <<>> /\ sent # <<>>)
     => /\ Len(sent[1]) = 2
        /\ RepsOf(sent[1], "squat") = 8
        /\ RepsOf(sent[1], "pushup") = 12

\* ---------------------------------------------------------------- C5
\* C5: when counting is on and every keypoint the active exercise needs is
\* confident on the left or else on the right, the angle(s) the frame loop
\* passes to update() are not all absent, for each of the eight kinds.
C5_Claim ==
  (fed # <<>> /\ needed) => ~AllNull(Last(fed))

\* ---------------------------------------------------------------- C7
\* C7: while a session is in progress, no step other than a user action
\* lowers the repCount of a machine.
C7_Claim ==
  [][(isWorkoutActive /\ ~UserAction)
        => \A k \in Kinds : sm'[k].repCount >= sm[k].repCount]_vars

\* ---------------------------------------------------------------- C8
\* C8: a switch of exercise while counting is off adds the outgoing
\* exercise's rep count to its entry of the log, creating the entry if absent.
C8_Claim ==
  [][(currentExercise' # currentExercise /\ ~isCounting /\ repCount > 0)
        => /\ InLog(workoutLog', currentExercise)
           /\ RepsOf(workoutLog', currentExercise)
                = RepsOf(workoutLog, currentExercise) + repCount]_vars

\* ---------------------------------------------------------------- C9
\* C9: once the camera effect has run stopCamera, and until the next
\* session is started, no frame callback of the detection loop is scheduled,
\* whatever was awaited when stopCamera ran.
C9_Claim ==
  (~activeSeen /\ ~isWorkoutActive) => rafPending = {}

\* ---------------------------------------------------------------- C10
\* C10: from the moment handleEndWorkout has issued the calorie request
\* until the request completes (and no new session is started), no
\* state-machine update() runs.
C10_Claim ==
  [][(fetches > 0 /\ ~isWorkoutActive) => nUpdates' = nUpdates]_vars

\* ---------------------------------------------------------------- C11
\* C11: neither the end-session action nor the failure of its calorie
\* request changes a SessionLog entry or a machine's repCount, so that after
\* a failed request both are what they were right before the session was
\* ended.
C11_Claim ==
  [][(handleEndWorkout \/ VoiceEndWorkout \/ FetchFail)
        => /\ workoutLog' = workoutLog
           /\ \A k \in Kinds : sm'[k].repCount = sm[k].repCount]_vars

\* ---------------------------------------------------------------- C12
\* C12: whenever an awaited pose estimation of a running session completes,
\* by a result or by an exception, the frame loop requests its next frame.
C12_Claim ==
  [][(awaiting' < awaiting /\ isWorkoutActive /\ activeSeen)
        => rafPending' \ rafPending # {}]_vars

\* ---------------------------------------------------------------- C13
\* the phases of kind k in the order update() goes through them
Cycle(k) ==
  CASE k \in {"squat", "lunge"} -> <<"standing", "descending", "bottom", "ascending">>
    [] k = "bench"              -> <<"extended", "descending", "bottom", "ascending">>
    [] k = "deadlift"           -> <<"standing", "bending", "bottom", "lifting">>
    [] k = "pushup"             -> <<"up", "descending", "bottom", "ascending">>
    [] k = "pullup"             -> <<"hanging", "pulling", "top", "descending">>
    [] k = "shoulderpress"      -> <<"down", "up">>
    [] k = "lateralraise"       -> <<"down", "raising", "top", "lowering">>

\* the phase one transition after phase p
NextPhase(k, p) ==
  LET c == Cycle(k)
      i == CHOOSE n \in DOMAIN c : c[n] = p
  IN c[(i % Len(c)) + 1]

\* C13: one update() call raises repCount by 0 or 1 and makes at most one
\* phase transition, on every machine.
C13_OneStep ==
  [][(fed' # fed /\ fed' # <<>>)
        => /\ sm'[ut].repCount - sm[ut].repCount \in {0, 1}
           /\ sm'[ut].state \in {sm[ut].state, NextPhase(ut, sm[ut].state)}]_vars

C13_Witness ==
  /\ ut = "lunge"
  /\ fed = One(<<110, 85, 105, 170>>)
  /\ sm[ut].repCount = 1
  /\ sm[ut].state = "standing"

\* ---------------------------------------------------------------- C14
\* C14: after any sequence of update() calls, reset() leaves the machine
\* with the phase, the repCount and (squat) the depth flag of a freshly
\* constructed machine, and a second reset() changes nothing.
C14_ResetFresh ==
  [][(fed' = <<>> /\ fed # <<>>)
        => /\ sm'[ut].state = initializeStateMachines[ut].state
           /\ sm'[ut].repCount = initializeStateMachines[ut].repCount
           /\ (ut = "squat" =>
                 sm'[ut].minDepthReached = initializeStateMachines[ut].minDepthReached)
           /\ Reset(ut, sm'[ut]) = sm'[ut]]_vars

\* reset() right after a counted squat: the 'Good rep!' entry is still
\* there, the count is back to 0
C14_Witness ==
  /\ ut = "squat"
  /\ fed = <<>>
  /\ HasMsg(sm[ut], "success", "Good rep!")
  /\ sm[ut].repCount = 0
  /\ sm[ut].state = "standing"

\* ---------------------------------------------------------------- C17
\* C17: a bench-press machine in phase bottom that gets an elbow angle not
\* above 100 stays in phase bottom with the same repCount.
C17_BenchHysteresis ==
  [][(ut = "bench" /\ sm[ut].state = "bottom" /\ fed' # fed /\ fed' # <<>>
        /\ Last(fed')[1] <= Deg(100))
        => (sm'[ut].state = "bottom" /\ sm'[ut].repCount = sm[ut].repCount)]_vars

C17_Witness ==
  /\ ut = "bench"
  /\ fed = One(<<110, 85, 95, 85, 100>>)
  /\ sm[ut].state = "bottom"
  /\ sm[ut].repCount = 0

\* ---------------------------------------------------------------- C18
\* C18: a shoulder-press update() with rightElbow only goes down -> up when
\* rightElbow > 160, up -> down with a rep when rightElbow < 100, stays
\* otherwise, and leaves no warning.
C18_RightOnly ==
  [][(ut = "shoulderpress" /\ fed' # fed /\ fed' # <<>>
        /\ Last(fed')[1] = Null /\ Last(fed')[2] # Null)
        => LET r == Last(fed')[2]
               m == sm[ut]
               n == sm'[ut]
           IN /\ ~HasType(n, "warning")
              /\ (m.state = "down" /\ r > Deg(160))
                    => (n.state = "up" /\ n.repCount = m.repCount)
              /\ (m.state = "up" /\ r < Deg(100))
                    => (n.state = "down" /\ n.repCount = m.repCount + 1)
              /\ ~(m.state = "down" /\ r > Deg(160)) /\ ~(m.state = "up" /\ r < Deg(100))
                    => (n.state = m.state /\ n.repCount = m.repCount)]_vars

C18_Witness ==
  /\ ut = "shoulderpress"
  /\ fed = <<<<Null, Deg(170)>>, <<Null, Deg(90)>>>>
  /\ sm[ut].repCount = 1
  /\ sm[ut].state = "down"

\* ---------------------------------------------------------------- C19
\* C19: after a squat update() with a present knee angle, feedbackMessages
\* holds 'Keep knees behind toes' when kneeToe / legLength > 0.20 and
\* 'Keep torso more upright' when torsoLean > 50.
C19_Claim ==
  [][(ut = "squat" /\ fed' # fed /\ fed' # <<>> /\ ~AllNull(Last(fed')))
        => /\ (form'.legLength # Null /\ 100 * form'.kneeToe > 20 * form'.legLength)
                 => HasMsg(sm'[ut], "warning", "Keep knees behind toes")
           /\ (form'.torsoLean > Deg(50))
                 => HasMsg(sm'[ut], "warning", "Keep torso more upright")]_vars

\* ======================================================================
\* Loop harness: counting is on for the exercise under test and the loop
\* runs (the state of the frame harness), text-to-speech is on; frames with
\* no pose or a fully visible pose go on, counting is paused and resumed,
\* handleExerciseChange is called directly, whatever the counting flag, and
\* the session is ended, its calorie request answered and its reset timer
\* fired.
\* ======================================================================
InitLoop ==
  /\ ut \in SessionKinds
  /\ CountingProgram
  /\ InitHarness
  /\ script = <<>>
  /\ ttsEnabled = TRUE

\* a pose estimation completes; seen records whether it returned a pose
PoseArrives ==
  \E poses \in {<<>>} \cup {<<MakePose(b, AllVisible)>> : b \in Postures} :
     /\ EstimateResolve(poses)
     /\ seen' = (Len(poses) > 0)

NextLoop ==
  \/ (\E exercise \in SessionKinds : handleExerciseChange(exercise)) /\ Explored
  \/ handleStartCounting /\ Explored
  \/ handleStopCounting /\ Explored
  \/ RunEffects /\ Explored
  \/ FrameFire /\ Explored
  \/ PoseArrives /\ UNCHANGED <<ut, fed, needed, form, geo, since, jitter, script, ttsEnabled>>
                 /\ Bounded'
  \/ handleEndWorkout /\ Explored
  \/ FetchOk /\ Explored
  \/ ResetTimerFire /\ Explored

SpecLoop == InitLoop /\ [][NextLoop]_vars

\* ---------------------------------------------------------------- C15
\* C15: right after resetWorkout() has run, the SessionLog is empty and each
\* of the eight machines has repCount = 0 and its initial phase.
C15_ResetClears ==
  [][(resetTimers' < resetTimers)
        => /\ workoutLog' = <<>>
           /\ \A k \in Kinds : /\ sm'[k].repCount = 0
                               /\ sm'[k].state = InitialPhase(k)]_vars

\* resetWorkout() has run after a rep was counted and logged: the machine
\* still shows the 'Good rep!' of its last update, its count is back to 0
C15_Witness ==
  /\ HasMsg(sm["shoulderpress"], "success", "Good rep!")
  /\ sm["shoulderpress"].repCount = 0
  /\ sm["shoulderpress"].state = "down"
  /\ workoutLog = <<>>
  /\ resetTimers = 0
  /\ caloriesResult = Null

C20_NoUpdate ==
  [][(awaiting' < awaiting /\ (~seen' \/ ~isCountingRef))
        => (sm' = sm /\ nUpdates' = nUpdates /\ repCount' = repCount)]_vars

\* after one update, counting was paused and a frame with a pose completed
C20_Witness ==
  /\ seen
  /\ ~isCountingRef
  /\ nUpdates = 1
  /\ awaiting = 0
  /\ rafPending # {}
  /\ HasType(sm[ut], "warning")

\* ======================================================================
\* Geometry harness: the four helpers are called once on points drawn from
\* a 3 x 3 grid, each point possibly missing.
\* ======================================================================
GeoPoints == {NoPoint} \cup {<<x, y>> : x \in 0..2, y \in 0..2}

InitGeo ==
  /\ InitProgram
  /\ ut = "squat"
  /\ fed = <<>> /\ needed = FALSE /\ form = NoForm /\ seen = FALSE
  /\ since = {} /\ jitter = NoJitter
  /\ script = <<>>
  /\ ttsEnabled = FALSE
  /\ geo \in {[NoGeo EXCEPT !.pointA = a, !.pointB = b, !.pointC = c] :
                a \in GeoPoints, b \in GeoPoints, c \in GeoPoints}

\* calculateAngle(pointA, pointB, pointC), and the three two-point helpers
\* on (pointA, pointB)
GeoCall ==
  /\ ~geo.called
  /\ geo' = [geo EXCEPT
               !.called = TRUE,
               !.angle = calculateAngle(geo.pointA, geo.pointB, geo.pointC),
               !.vertical = calculateVerticalAngle(geo.pointA, geo.pointB),
               !.horizontal = calculateHorizontalDistance(geo.pointA, geo.pointB),
               !.distance = calculateDistance(geo.pointA, geo.pointB)]
  /\ UNCHANGED <<program, ut, fed, needed, form, seen, since, jitter, script, ttsEnabled>>

NextGeo == GeoCall

SpecGeo == InitGeo /\ [][NextGeo]_vars

\* ---------------------------------------------------------------- C21
\* C21: each of calculateAngle, calculateVerticalAngle,
\* calculateHorizontalDistance and calculateDistance returns null when one of
\* its points is missing, and a number (not null) when all are present.
C21_NullPropagation ==
  geo.called =>
    LET two   == geo.pointA # NoPoint /\ geo.pointB # NoPoint
        three == two /\ geo.pointC # NoPoint
    IN /\ (geo.angle = Null) <=> ~three
       /\ (geo.vertical = Null) <=> ~two
       /\ (geo.horizontal = Null) <=> ~two
       /\ (geo.distance = Null) <=> ~two
       /\ \A r \in {geo.angle, geo.vertical, geo.horizontal, geo.distance} : r >= Null

\* the right angle at the pivot (0,0) between (1,0) and (0,1), and the
\* helpers on the segment from (1,0) to (0,0)
C21_Witness ==
  /\ geo.called
  /\ geo.pointA = <<1, 0>> /\ geo.pointB = <<0, 0>> /\ geo.pointC = <<0, 1>>
  /\ geo.angle = Deg(90)
  /\ geo.vertical = Deg(90)
  /\ geo.horizontal = 1
  /\ geo.distance = 100

\* ---------------------------------------------------------------- C22
\* C22: every step of a running session that turns counting off while the
\* displayed rep counter is positive, by the pause button or by the voice
\* command, adds that count to the active exercise's entry of the SessionLog.
C22_Claim ==
  [][(isCounting /\ ~isCounting' /\ isWorkoutActive' /\ repCount > 0)
        => RepsOf(workoutLog', currentExercise)
             = RepsOf(workoutLog, currentExercise) + repCount]_vars

\* ======================================================================
\* Log harness: counting is on for the exercise under test and the loop
\* runs; each frame step is one whole iteration of detect() on a fully
\* visible pose, and the user pauses, resumes, clicks exercise buttons and
\* ends the session.  No machine is reset, so a machine's repCount is the
\* number of reps it counted in the session.
\* ======================================================================
InitLog ==
  /\ ut \in SessionKinds
  /\ CountingProgram
  /\ InitHarness
  /\ script = <<>>
  /\ ttsEnabled = FALSE

\* one iteration of detect(): the awaited pose arrives, is processed when
\* isCountingRef.current holds, and the next frame fires and awaits its pose
CountedFrame ==
  /\ awaiting > 0
  /\ nUpdates < MaxFrames
  /\ \E b \in Postures :
       IF isCountingRef
         THEN updateExerciseState(MakePose(b, AllVisible))
         ELSE UNCHANGED <<sm, repCount, nUpdates, spoken>>
  /\ UNCHANGED <<stateMachineRef, isCountingRef, currentExerciseRef, animationRef,
                 isWorkoutActive, isCounting, currentExercise, workoutLog,
                 isCalculating, caloriesResult, showResult, react, loop, net>>

LogBounded ==
  /\ \A i \in DOMAIN workoutLog : workoutLog[i].reps <= MaxLogged
  /\ \A j \in DOMAIN sent : \A i \in DOMAIN sent[j] : sent[j][i].reps <= MaxLogged

LogExplored == UNCHANGED <<harness, script, ttsEnabled>> /\ LogBounded'

NextLog ==
  \/ CountedFrame /\ LogExplored
  \/ handleStartCounting /\ LogExplored
  \/ handleStopCounting /\ LogExplored
  \/ (\E exercise \in SessionKinds : ExerciseButton(exercise)) /\ LogExplored
  \/ RunEffects /\ LogExplored
  \/ handleEndWorkout /\ LogExplored

SpecLog == InitLog /\ [][NextLog]_vars

\* ---------------------------------------------------------------- C23
\* C23: the session summary that end-session sends holds, for every
\* exercise kind, exactly the number of reps the kind's machine counted in
\* the session (0 for a kind without entry).
C23_Claim ==
  [][handleEndWorkout
        => \A k \in Kinds : RepsOf(Last(sent'), k) = sm[k].repCount]_vars

\* ---------------------------------------------------------------- C24
\* C24: on each of the seven four-phase machines an update() either keeps
\* the phase or moves it to the next phase of the kind's cycle, and it
\* changes repCount only by adding 1 on the step from the last phase of the
\* cycle to the initial phase.
C24_CycleOrder ==
  [][(Len(Cycle(ut)) = 4 /\ fed' # fed /\ fed' # <<>>)
        => /\ sm'[ut].state \in {sm[ut].state, NextPhase(ut, sm[ut].state)}
           /\ (sm'[ut].repCount # sm[ut].repCount)
                 => /\ sm'[ut].repCount = sm[ut].repCount + 1
                    /\ sm[ut].state = Cycle(ut)[4]
                    /\ sm'[ut].state = InitialPhase(ut)]_vars

C24_Witness ==
  /\ ut = "pullup"
  /\ fed = One(<<110, 85, 105, 170>>)
  /\ sm[ut].repCount = 1
  /\ sm[ut].state = "hanging"

\* ======================================================================
\* Jitter harness: one of the five flexion machines is driven by direct
\* update() calls, without a limit on their number.  The angles lie 5
\* degrees on either side of the thresholds 90, 100, 120 and 160; from some
\* call on, they may be confined to the two values around one threshold.
\* ======================================================================
JitterThresholds == {Deg(90), Deg(100), Deg(120), Deg(160)}

Around(t) == {t - Deg(5), t + Deg(5)}

JitterValues == {Null} \cup UNION {Around(t) : t \in JitterThresholds}

\* the AngleSet whose driving angle for machine k is d
AnglesOf(k, d) ==
  CASE k = "lunge"                       -> [NoAngles EXCEPT !.knee = d]
    [] k \in {"bench", "pushup", "pullup"} -> [NoAngles EXCEPT !.elbow = d]
    [] k = "deadlift"                    -> [NoAngles EXCEPT !.hip = d]

InitJitter ==
  /\ InitProgram
  /\ ut \in FlexKinds
  /\ InitHarness
  /\ script = <<>>
  /\ ttsEnabled = FALSE

\* one direct call sm[ut].update(angles, distances) with driving angle d
JitterUpdate(d) ==
  /\ d \in (IF jitter.around = Null THEN JitterValues ELSE Around(jitter.around))
  /\ LET m2 == Update(ut, sm[ut], AnglesOf(ut, d), NoDistances)
     IN /\ m2.repCount <= MaxReps
        /\ sm' = [sm EXCEPT ![ut] = m2]
        /\ since' = IF m2.repCount > sm[ut].repCount THEN {} ELSE since \cup {d}
  /\ UNCHANGED <<stateMachineRef, isCountingRef, currentExerciseRef, animationRef,
                 state, react, loop, net, nUpdates, spoken, ut, fed, needed, form,
                 seen, geo, jitter, script, ttsEnabled>>

\* from now on the inputs jitter around the threshold t
StartJitter ==
  /\ jitter.around = Null
  /\ \E t \in JitterThresholds : jitter' = [around |-> t, base |-> sm[ut].repCount]
  /\ UNCHANGED <<program, ut, fed, needed, form, seen, geo, since, script, ttsEnabled>>

NextJitter ==
  \/ \E d \in JitterValues : JitterUpdate(d)
  \/ StartJitter

SpecJitter == InitJitter /\ [][NextJitter]_vars

\* ---------------------------------------------------------------- C25
\* C25: on bench press, deadlift, push-up, pull-up and lunge, an update()
\* that counts a rep has a driving angle above 160 and follows, since the
\* previous counted rep, an update() with a driving angle below 90; and
\* inputs that jitter around one threshold raise repCount by at most 1.
C25_Debounce ==
  [][/\ \A d \in JitterValues :
          (JitterUpdate(d) /\ sm'[ut].repCount > sm[ut].repCount)
             => (d > Deg(160) /\ \E v \in since : v # Null /\ v < Deg(90))
     /\ (jitter'.around # Null) => (sm'[ut].repCount <= jitter'.base + 1)]_vars

\* after one counted rep the inputs jitter around 160: the rep under way is
\* counted, and the jitter that follows counts nothing
C25_Witness ==
  /\ ut = "lunge"
  /\ jitter = [around |-> Deg(160), base |-> 1]
  /\ sm[ut].repCount = 2
  /\ since = {Deg(155), Deg(165)}

\* ---------------------------------------------------------------- C26
\* C26: a frame's update() changes the phase and the repCount of no machine
\* but the active one, and a switch of exercise changes the phase and the
\* repCount of no machine at all.
C26_IdleUntouched ==
  [][/\ (nUpdates' = nUpdates + 1)
          => \A k \in Kinds \ {stateMachineRef} :
                sm'[k].state = sm[k].state /\ sm'[k].repCount = sm[k].repCount
     /\ (currentExercise' # currentExercise \/ stateMachineRef' # stateMachineRef)
          => \A k \in Kinds :
                sm'[k].state = sm[k].state /\ sm'[k].repCount = sm[k].repCount]_vars

\* the shoulder-press machine counted a rep and went idle; squat is active
\* and its machine has been updated
C26_Witness ==
  /\ stateMachineRef = "squat"
  /\ currentExercise = "squat"
  /\ isCounting
  /\ sm["squat"].state = "descending"
  /\ sm["shoulderpress"].repCount = 1
  /\ sm["shoulderpress"].state = "down"

\* ---------------------------------------------------------------- C27
\* the AngleSet that has the driving angle(s) d of machine k
Driven(k, d) ==
  CASE k = "squat"         -> [NoAngles EXCEPT !.knee = d[1]]
    [] k = "lateralraise"  -> [NoAngles EXCEPT !.shoulder = d[1]]
    [] k = "shoulderpress" -> [NoAngles EXCEPT !.leftElbow = d[1], !.rightElbow = d[2]]
    [] OTHER               -> AnglesOf(k, d[1])

\* C27: after an update() call feedbackMessages is what the same call
\* leaves on a machine whose list was empty, so no earlier entry survives,
\* and it has at most two entries.
C27_Replaced ==
  [][(fed' # fed /\ fed' # <<>>)
        => /\ sm'[ut].feedbackMessages =
                Update(ut, [sm[ut] EXCEPT !.feedbackMessages = <<>>],
                       [Driven(ut, Last(fed')) EXCEPT !.torsoLean = form'.torsoLean],
                       [NoDistances EXCEPT !.kneeToe = form'.kneeToe,
                                           !.legLength = form'.legLength]).feedbackMessages
           /\ Len(sm'[ut].feedbackMessages) <= 2]_vars

\* the call after a counted lunge: the 'Good rep!' entry is gone
C27_Witness ==
  /\ ut = "lunge"
  /\ fed = One(<<110, 85, 105, 170, 170>>)
  /\ sm[ut].repCount = 1
  /\ sm[ut].feedbackMessages = <<>>

\* ---------------------------------------------------------------- C28
\* C28: after every update() of the squat machine, minDepthReached holds
\* when the phase is bottom or ascending, no 'Too shallow' entry was left,
\* and a step from ascending to standing has added 1 to repCount.
C28_DepthReached ==
  [][(ut = "squat" /\ fed' # fed /\ fed' # <<>>)
        => /\ (sm'[ut].state \in {"bottom", "ascending"}) => sm'[ut].minDepthReached
           /\ ~HasMsg(sm'[ut], "error", "Too shallow")
           /\ (sm[ut].state = "ascending" /\ sm'[ut].state = "standing")
                 => sm'[ut].repCount = sm[ut].repCount + 1]_vars

\* a squat that went just below the bottom threshold and came back up
C28_Witness ==
  /\ ut = "squat"
  /\ fed = One(<<140, 100, 130, 170>>)
  /\ sm[ut].repCount = 1
  /\ sm[ut].state = "standing"
  /\ ~sm[ut].minDepthReached

\* ---------------------------------------------------------------- C29
\* C29: in every state reached by a step that leaves counting on, or by a
\* pause, the displayed rep counter equals the repCount of the active
\* machine.
C29_Claim ==
  [][(isCounting' \/ handleStopCounting)
        => repCount' = sm'[stateMachineRef'].repCount]_vars

\* ---------------------------------------------------------------- C30
\* the exercises of the entries of a log are pairwise different
OnePerKind(log) ==
  \A i \in DOMAIN log : \A j \in DOMAIN log : log[i].exercise = log[j].exercise => i = j

\* C30: the SessionLog, and the log handed to the calorie request, hold at
\* most one entry per exercise kind, and a step that does not empty the log
\* keeps the entries it had at their positions, so that new kinds come
\* after the kinds logged before.
C30_LogOrder ==
  [][/\ OnePerKind(workoutLog')
     /\ \A n \in DOMAIN sent' : OnePerKind(sent'[n])
     /\ \/ workoutLog' = <<>>
        \/ /\ Len(workoutLog') >= Len(workoutLog)
           /\ \A i \in DOMAIN workoutLog : workoutLog'[i].exercise = workoutLog[i].exercise
     /\ handleEndWorkout
          => \A i \in DOMAIN workoutLog : Last(sent')[i].exercise = workoutLog[i].exercise]_vars

\* shoulder press was logged first and a second time before squat was
\* logged: its entry is still the first
C30_Witness ==
  /\ Len(workoutLog) = 2
  /\ workoutLog[1] = [exercise |-> "shoulderpress", reps |-> 2]
  /\ workoutLog[2] = [exercise |-> "squat", reps |-> 1]

====
